---- MODULE Spec2Model ----
(***************************************************************************)
(* Model of fmmax's scattering-matrix stack engine                         *)
(* (src/src/fmmax/scattering.py).                                          *)
(*                                                                         *)
(* Arrays are modelled exactly.  The complex scalars of the source are     *)
(* replaced by the elements of the prime field GF(P) and matrices are      *)
(* 2 x 2 (two expansion terms, batch shape ()).  An eigenvalue q is an     *)
(* integer 1 .. P-1: it is the field element q where the source multiplies *)
(* or divides by it, and jnp.exp(1j * q * t) is G^(q*t) with G a generator *)
(* of the multiplicative group, so exp(a+b) = exp(a)*exp(b) holds as it    *)
(* does for complex numbers.  A linear solve against a singular matrix     *)
(* (inf/nan in floating point) yields the poison value NaN, which every    *)
(* array operation propagates.                                             *)
(***************************************************************************)
EXTENDS Integers, Sequences, FiniteSets, TLC

\* ------------------------------------------------------------------ bounds
MaxLayers == 3
MaxBatch == 2
MaxGrid == 2
MaxGridRank == 3
MaxTerms == 10
MaxThickness == 1
MaxExpansionTerms == 5
MaxExtent == 5
MaxRows == 2
MaxCoefficient == 1

\* -------------------------------------------------------- strict evaluation
\* A Python assignment evaluates its right-hand side once.  Bind(v, F) is
\* F(v) with v evaluated once, whatever the number of uses F makes of it.
The(S) == CHOOSE v \in S : TRUE
Bind(v, F(_)) == The({F(b) : b \in {v}})
Bind2(v, w, F(_, _)) == The({F(a, b) : a \in {v}, b \in {w}})

\* -------------------------------------------------------------- arithmetic
P == 13
G == 2

Inv(x) == CHOOSE y \in 1 .. (P - 1) : (x * y) % P = 1

RECURSIVE Pow(_, _)
Pow(b, e) == IF e = 0 THEN 1 ELSE (b * Pow(b, e - 1)) % P

NaN == << <<P, P>>, <<P, P>> >>
IsNaN(A) == A[1][1] = P

Zeros == << <<0, 0>>, <<0, 0>> >>

\* misc.diag(v): the diagonal matrix of a vector.
Diag(v0) == Bind(v0, LAMBDA v : << <<v[1], 0>>, <<0, v[2]>> >>)

\* A @ B
MatMul(A0, B0) ==
    Bind2(A0, B0, LAMBDA A, B :
        IF IsNaN(A) \/ IsNaN(B) THEN NaN
        ELSE << << (A[1][1] * B[1][1] + A[1][2] * B[2][1]) % P,
                   (A[1][1] * B[1][2] + A[1][2] * B[2][2]) % P >>,
                << (A[2][1] * B[1][1] + A[2][2] * B[2][1]) % P,
                   (A[2][1] * B[1][2] + A[2][2] * B[2][2]) % P >> >>)

\* A + B
MatAdd(A0, B0) ==
    Bind2(A0, B0, LAMBDA A, B :
        IF IsNaN(A) \/ IsNaN(B) THEN NaN
        ELSE << << (A[1][1] + B[1][1]) % P, (A[1][2] + B[1][2]) % P >>,
                << (A[2][1] + B[2][1]) % P, (A[2][2] + B[2][2]) % P >> >>)

\* c * A for a scalar c
MatScale(c, A0) ==
    Bind(A0, LAMBDA A :
        IF IsNaN(A) THEN NaN
        ELSE << << (c * A[1][1]) % P, (c * A[1][2]) % P >>,
                << (c * A[2][1]) % P, (c * A[2][2]) % P >> >>)

\* -A
MatNeg(A) == MatScale(P - 1, A)

\* A - B
MatSub(A, B) == MatAdd(A, MatNeg(B))

\* v[..., jnp.newaxis] * A : row i of A times v[i]  (diag(v) @ A)
RowScale(v0, A0) ==
    Bind2(v0, A0, LAMBDA v, A :
        IF IsNaN(A) THEN NaN
        ELSE << << (v[1] * A[1][1]) % P, (v[1] * A[1][2]) % P >>,
                << (v[2] * A[2][1]) % P, (v[2] * A[2][2]) % P >> >>)

\* A * v[..., jnp.newaxis, :] : column j of A times v[j]  (A @ diag(v))
ColScale(A0, v0) ==
    Bind2(A0, v0, LAMBDA A, v :
        IF IsNaN(A) THEN NaN
        ELSE << << (A[1][1] * v[1]) % P, (A[1][2] * v[2]) % P >>,
                << (A[2][1] * v[1]) % P, (A[2][2] * v[2]) % P >> >>)

Det(A) == (A[1][1] * A[2][2] - A[1][2] * A[2][1]) % P

\* utils.solve(A, B): the X with A @ X = B; NaN when A is singular.
Solve(A0, B0) ==
    Bind2(A0, B0, LAMBDA A, B :
        IF IsNaN(A) \/ IsNaN(B) THEN NaN
        ELSE IF Det(A) = 0 THEN NaN
        ELSE MatMul(MatScale(Inv(Det(A)),
                             << << A[2][2], (P - A[1][2]) % P >>,
                                << (P - A[2][1]) % P, A[1][1] >> >>), B))

\* 1 / q, elementwise
Recip(q) == << Inv(q[1]), Inv(q[2]) >>

\* jnp.exp(1j * q * t), elementwise over the eigenvalue vector q
ExpI(q, t) == << Pow(G, (q[1] * t) % (P - 1)), Pow(G, (q[2] * t) % (P - 1)) >>

\* 0.5
Half == Inv(2)

\* ------------------------------------------------------- layer solve results
None == "None"

LayerA == [eigenvalues |-> <<3, 10>>,
           eigenvectors |-> << <<12, 12>>, <<1, 4>> >>,
           omega_script_k_matrix |-> << <<1, 7>>, <<12, 7>> >>,
           tangent_vector_field |-> "tvf_a"]

LayerB == [eigenvalues |-> <<8, 11>>,
           eigenvectors |-> << <<6, 12>>, <<3, 1>> >>,
           omega_script_k_matrix |-> << <<7, 0>>, <<6, 6>> >>,
           tangent_vector_field |-> None]

LayerPalette == {LayerA, LayerB}

Thicknesses == 0 .. MaxThickness

\* Mutant: the layer solve result is used as given.
StripTangent_keep(lsr) == lsr

\* dataclasses.replace(solve_result, tangent_vector_field=None)
StripTangent(lsr) == [lsr EXCEPT !.tangent_vector_field = None]

\* ---------------------------------------------------------- ScatteringMatrix
ScatteringMatrix(s11, s12, s21, s22, start_lsr, start_t, end_lsr, end_t) ==
    [s11 |-> s11, s12 |-> s12, s21 |-> s21, s22 |-> s22,
     start_layer_solve_result |-> start_lsr,
     start_layer_thickness |-> start_t,
     end_layer_solve_result |-> end_lsr,
     end_layer_thickness |-> end_t]

\* --------------------------------------------------------- _pair_s_matrix
\* Mutant: s21 = i21 @ s12 instead of i21 @ s11.
_pair_s_matrix_s21(lsr, t, next_lsr, next_t) ==
    LET q == lsr.eigenvalues
        phi == lsr.eigenvectors
        omega_k == lsr.omega_script_k_matrix
        next_q == next_lsr.eigenvalues
        next_phi == next_lsr.eigenvectors
        next_omega_k == next_lsr.omega_script_k_matrix
    IN
    Bind(RowScale(q, Solve(MatMul(omega_k, phi),
                           ColScale(MatMul(next_omega_k, next_phi),
                                    Recip(next_q)))), LAMBDA term1 :
    Bind(Solve(MatMul(omega_k, phi), MatMul(omega_k, next_phi)), LAMBDA term2 :
    Bind(MatScale(Half, MatAdd(term1, term2)), LAMBDA i11 :
    Bind(MatScale(Half, MatAdd(MatNeg(term1), term2)), LAMBDA i12 :
    Bind(ExpI(q, t), LAMBDA fd :
    Bind(ExpI(next_q, next_t), LAMBDA fd_next :
    Bind(Solve(i11, Diag(fd)), LAMBDA s11 :
    Bind(Solve(i11, ColScale(MatNeg(i12), fd_next)), LAMBDA s12 :
        LET i22 == i11
            i21 == i12
            s21 == MatMul(i21, s12)
            s22 == MatAdd(MatMul(i21, s12), ColScale(i22, fd_next))
        IN  ScatteringMatrix(s11, s12, s21, s22, lsr, t, next_lsr, next_t)
    ))))))))

_pair_s_matrix(lsr, t, next_lsr, next_t) ==
    LET q == lsr.eigenvalues
        phi == lsr.eigenvectors
        omega_k == lsr.omega_script_k_matrix
        next_q == next_lsr.eigenvalues
        next_phi == next_lsr.eigenvectors
        next_omega_k == next_lsr.omega_script_k_matrix
    IN
    Bind(RowScale(q, Solve(MatMul(omega_k, phi),
                           ColScale(MatMul(next_omega_k, next_phi),
                                    Recip(next_q)))), LAMBDA term1 :
    Bind(Solve(MatMul(omega_k, phi), MatMul(omega_k, next_phi)), LAMBDA term2 :
    Bind(MatScale(Half, MatAdd(term1, term2)), LAMBDA i11 :
    Bind(MatScale(Half, MatAdd(MatNeg(term1), term2)), LAMBDA i12 :
    Bind(ExpI(q, t), LAMBDA fd :
    Bind(ExpI(next_q, next_t), LAMBDA fd_next :
    Bind(Solve(i11, Diag(fd)), LAMBDA s11 :
    Bind(Solve(i11, ColScale(MatNeg(i12), fd_next)), LAMBDA s12 :
        LET i22 == i11
            i21 == i12
            s21 == MatMul(i21, s11)
            s22 == MatAdd(MatMul(i21, s12), ColScale(i22, fd_next))
        IN  ScatteringMatrix(s11, s12, s21, s22, lsr, t, next_lsr, next_t)
    ))))))))

\* --------------------------------------------------------- _extend_s_matrix
\* Mutant: s22_next = s22 @ i21 @ s12_next + s22 @ i22, without diag(fd_next).
_extend_s_matrix_nophase(s_matrix_blocks, lsr, t, next_lsr, next_t) ==
    LET q == lsr.eigenvalues
        phi == lsr.eigenvectors
        omega_k == lsr.omega_script_k_matrix
        next_q == next_lsr.eigenvalues
        next_phi == next_lsr.eigenvectors
        next_omega_k == next_lsr.omega_script_k_matrix
    IN
    Bind(s_matrix_blocks, LAMBDA blocks :
    Bind(RowScale(q, Solve(MatMul(omega_k, phi),
                           ColScale(MatMul(next_omega_k, next_phi),
                                    Recip(next_q)))), LAMBDA term1 :
    Bind(Solve(MatMul(omega_k, phi), MatMul(omega_k, next_phi)), LAMBDA term2 :
    Bind(MatScale(Half, MatAdd(term1, term2)), LAMBDA i11 :
    Bind(MatScale(Half, MatAdd(MatNeg(term1), term2)), LAMBDA i12 :
    Bind(ExpI(q, t), LAMBDA fd :
    Bind(ExpI(next_q, next_t), LAMBDA fd_next :
    Bind(MatSub(i11, MatMul(RowScale(fd, blocks[2]), i12)), LAMBDA term3 :
    Bind(Solve(term3, RowScale(fd, blocks[1])), LAMBDA s11_next :
    Bind(Solve(term3,
               ColScale(MatSub(MatMul(RowScale(fd, blocks[2]), i11), i12),
                        fd_next)), LAMBDA s12_next :
        LET i22 == i11
            i21 == i12
            s21 == blocks[3]
            s22 == blocks[4]
            s21_next == MatAdd(MatMul(MatMul(s22, i21), s11_next), s21)
            s22_next == MatAdd(MatMul(MatMul(s22, i21), s12_next),
                               MatMul(s22, i22))
        IN  <<s11_next, s12_next, s21_next, s22_next>>
    ))))))))))

_extend_s_matrix(s_matrix_blocks, lsr, t, next_lsr, next_t) ==
    LET q == lsr.eigenvalues
        phi == lsr.eigenvectors
        omega_k == lsr.omega_script_k_matrix
        next_q == next_lsr.eigenvalues
        next_phi == next_lsr.eigenvectors
        next_omega_k == next_lsr.omega_script_k_matrix
    IN
    Bind(s_matrix_blocks, LAMBDA blocks :
    Bind(RowScale(q, Solve(MatMul(omega_k, phi),
                           ColScale(MatMul(next_omega_k, next_phi),
                                    Recip(next_q)))), LAMBDA term1 :
    Bind(Solve(MatMul(omega_k, phi), MatMul(omega_k, next_phi)), LAMBDA term2 :
    Bind(MatScale(Half, MatAdd(term1, term2)), LAMBDA i11 :
    Bind(MatScale(Half, MatAdd(MatNeg(term1), term2)), LAMBDA i12 :
    Bind(ExpI(q, t), LAMBDA fd :
    Bind(ExpI(next_q, next_t), LAMBDA fd_next :
    Bind(MatSub(i11, MatMul(RowScale(fd, blocks[2]), i12)), LAMBDA term3 :
    Bind(Solve(term3, RowScale(fd, blocks[1])), LAMBDA s11_next :
    Bind(Solve(term3,
               ColScale(MatSub(MatMul(RowScale(fd, blocks[2]), i11), i12),
                        fd_next)), LAMBDA s12_next :
        LET i22 == i11
            i21 == i12
            s21 == blocks[3]
            s22 == blocks[4]
            s21_next == MatAdd(MatMul(MatMul(s22, i21), s11_next), s21)
            s22_next == MatAdd(MatMul(MatMul(s22, i21), s12_next),
                               ColScale(MatMul(s22, i22), fd_next))
        IN  <<s11_next, s12_next, s21_next, s22_next>>
    ))))))))))

\* ------------------------------------------------------------- append_layer
append_layer(s_matrix0, next_lsr0, next_t) ==
    Bind2(s_matrix0, next_lsr0, LAMBDA s, next_lsr :
    Bind(_extend_s_matrix(<<s.s11, s.s12, s.s21, s.s22>>,
                          s.end_layer_solve_result, s.end_layer_thickness,
                          next_lsr, next_t), LAMBDA b :
        ScatteringMatrix(b[1], b[2], b[3], b[4],
                         s.start_layer_solve_result, s.start_layer_thickness,
                         next_lsr, next_t)))

\* ------------------------------------------------------------ prepend_layer
\* Mutant: the blocks of the extended reversed stack are not swapped back.
prepend_layer_unswapped(s_matrix0, next_lsr0, next_t) ==
    Bind2(s_matrix0, next_lsr0, LAMBDA s, next_lsr :
    Bind(_extend_s_matrix(<<s.s22, s.s21, s.s12, s.s11>>,
                          s.start_layer_solve_result, s.start_layer_thickness,
                          next_lsr, next_t), LAMBDA b :
        ScatteringMatrix(b[1], b[2], b[3], b[4],
                         next_lsr, next_t,
                         s.end_layer_solve_result, s.end_layer_thickness)))

prepend_layer(s_matrix0, next_lsr0, next_t) ==
    Bind2(s_matrix0, next_lsr0, LAMBDA s, next_lsr :
    Bind(_extend_s_matrix(<<s.s22, s.s21, s.s12, s.s11>>,
                          s.start_layer_solve_result, s.start_layer_thickness,
                          next_lsr, next_t), LAMBDA b :
        LET s22_next == b[1]
            s21_next == b[2]
            s12_next == b[3]
            s11_next == b[4]
        IN  ScatteringMatrix(s11_next, s12_next, s21_next, s22_next,
                             next_lsr, next_t,
                             s.end_layer_solve_result, s.end_layer_thickness)))

\* -------------------------------------------------- set_*_layer_thickness
\* Mutant: s21 is rescaled too.
set_end_layer_thickness_s21(s_matrix0, thickness) ==
    Bind(s_matrix0, LAMBDA s :
    Bind(ExpI(s.end_layer_solve_result.eigenvalues,
              thickness - s.end_layer_thickness), LAMBDA fd :
        ScatteringMatrix(s.s11, ColScale(s.s12, fd),
                         ColScale(s.s21, fd), ColScale(s.s22, fd),
                         s.start_layer_solve_result, s.start_layer_thickness,
                         s.end_layer_solve_result, thickness)))

set_end_layer_thickness(s_matrix0, thickness) ==
    Bind(s_matrix0, LAMBDA s :
    Bind(ExpI(s.end_layer_solve_result.eigenvalues,
              thickness - s.end_layer_thickness), LAMBDA fd :
        ScatteringMatrix(s.s11, ColScale(s.s12, fd), s.s21, ColScale(s.s22, fd),
                         s.start_layer_solve_result, s.start_layer_thickness,
                         s.end_layer_solve_result, thickness)))

set_start_layer_thickness(s_matrix0, thickness) ==
    Bind(s_matrix0, LAMBDA s :
    Bind(ExpI(s.start_layer_solve_result.eigenvalues,
              thickness - s.start_layer_thickness), LAMBDA fd :
        ScatteringMatrix(ColScale(s.s11, fd), s.s12, ColScale(s.s21, fd), s.s22,
                         s.start_layer_solve_result, thickness,
                         s.end_layer_solve_result, s.end_layer_thickness)))

\* --------------------------------------------------- redheffer_star_product
\* Mutant: s12 = b11 @ solve(eye - a12 @ b21, a12 @ b22), without b12.
redheffer_star_product_s12(a0, b0) ==
    Bind2(a0, b0, LAMBDA a, b :
    Bind(append_layer(a, b.start_layer_solve_result, b.start_layer_thickness),
         LAMBDA a_extended :
        LET a11 == a_extended.s11
            a12 == a_extended.s12
            a21 == a_extended.s21
            a22 == a_extended.s22
            b11 == b.s11
            b12 == b.s12
            b21 == b.s21
            b22 == b.s22
            eye == Diag(<<1, 1>>)
            s11 == MatMul(b11, Solve(MatSub(eye, MatMul(a12, b21)), a11))
            s12 == MatMul(b11, Solve(MatSub(eye, MatMul(a12, b21)),
                                     MatMul(a12, b22)))
            s21 == MatAdd(a21, MatMul(a22, Solve(MatSub(eye, MatMul(b21, a12)),
                                                 MatMul(b21, a11))))
            s22 == MatMul(a22, Solve(MatSub(eye, MatMul(b21, a12)), b22))
        IN  ScatteringMatrix(s11, s12, s21, s22,
                             a.start_layer_solve_result, a.start_layer_thickness,
                             b.end_layer_solve_result, b.end_layer_thickness)))

\* Mutant: s21 = a22 @ solve(eye - b21 @ a12, b21 @ a11), without a21.
redheffer_star_product_s21(a0, b0) ==
    Bind2(a0, b0, LAMBDA a, b :
    Bind(append_layer(a, b.start_layer_solve_result, b.start_layer_thickness),
         LAMBDA a_extended :
        LET a11 == a_extended.s11
            a12 == a_extended.s12
            a21 == a_extended.s21
            a22 == a_extended.s22
            b11 == b.s11
            b12 == b.s12
            b21 == b.s21
            b22 == b.s22
            eye == Diag(<<1, 1>>)
            s11 == MatMul(b11, Solve(MatSub(eye, MatMul(a12, b21)), a11))
            s12 == MatAdd(b12, MatMul(b11, Solve(MatSub(eye, MatMul(a12, b21)),
                                                 MatMul(a12, b22))))
            s21 == MatMul(a22, Solve(MatSub(eye, MatMul(b21, a12)),
                                     MatMul(b21, a11)))
            s22 == MatMul(a22, Solve(MatSub(eye, MatMul(b21, a12)), b22))
        IN  ScatteringMatrix(s11, s12, s21, s22,
                             a.start_layer_solve_result, a.start_layer_thickness,
                             b.end_layer_solve_result, b.end_layer_thickness)))

redheffer_star_product(a0, b0) ==
    Bind2(a0, b0, LAMBDA a, b :
    Bind(append_layer(a, b.start_layer_solve_result, b.start_layer_thickness),
         LAMBDA a_extended :
        LET a11 == a_extended.s11
            a12 == a_extended.s12
            a21 == a_extended.s21
            a22 == a_extended.s22
            b11 == b.s11
            b12 == b.s12
            b21 == b.s21
            b22 == b.s22
            eye == Diag(<<1, 1>>)
            s11 == MatMul(b11, Solve(MatSub(eye, MatMul(a12, b21)), a11))
            s12 == MatAdd(b12, MatMul(b11, Solve(MatSub(eye, MatMul(a12, b21)),
                                                 MatMul(a12, b22))))
            s21 == MatAdd(a21, MatMul(a22, Solve(MatSub(eye, MatMul(b21, a12)),
                                                 MatMul(b21, a11))))
            s22 == MatMul(a22, Solve(MatSub(eye, MatMul(b21, a12)), b22))
        IN  ScatteringMatrix(s11, s12, s21, s22,
                             a.start_layer_solve_result, a.start_layer_thickness,
                             b.end_layer_solve_result, b.end_layer_thickness)))

\* -------------------------------------------------------- call outcomes
\* A call either raises (ValueError, with the two counts its message shows)
\* or returns a value.
Raise(count1, count2) ==
    [raised |-> "ValueError", message |-> <<count1, count2>>, value |-> None]

Return(v) == [raised |-> None, message |-> <<>>, value |-> v]

\* -------------------------------------------------------- _stack_s_matrices
\* jax.lax.scan of scan_fn (append_layer) over layers k .. Len: the stacked
\* outputs, one scattering matrix per scanned layer.
RECURSIVE ScanAppend(_, _, _, _)
ScanAppend(s_matrix0, lsrs, ths, k) ==
    IF k > Len(lsrs) THEN <<>>
    ELSE Bind(append_layer(s_matrix0, lsrs[k], ths[k]), LAMBDA s_matrix :
             <<s_matrix>> \o ScanAppend(s_matrix, lsrs, ths, k + 1))

\* Mutant: only too few thicknesses are refused.
LengthsDiffer_fewer(n, m) == n > m

\* len(layer_solve_results) != len(layer_thicknesses)
LengthsDiffer(n, m) == n # m

\* Mutant: the end blocks carry the layer's propagation phase.
InitialSMatrix_phase(lsr, t) ==
    LET eye == Diag(<<1, 1>>)
    IN  ScatteringMatrix(eye, Zeros, Zeros, Diag(ExpI(lsr.eigenvalues, t)),
                         lsr, t, lsr, t)

\* The initial scattering matrix is just the identity matrix.
InitialSMatrix(lsr, t) ==
    LET eye == Diag(<<1, 1>>)
    IN  ScatteringMatrix(eye, Zeros, Zeros, eye, lsr, t, lsr, t)

_stack_s_matrices(layer_solve_results0, layer_thicknesses0) ==
    Bind2(layer_solve_results0, layer_thicknesses0, LAMBDA lsrs_in, ths :
    IF LengthsDiffer(Len(lsrs_in), Len(ths)) THEN Raise(Len(lsrs_in), Len(ths))
    ELSE
      Bind([i \in 1 .. Len(lsrs_in) |-> StripTangent(lsrs_in[i])], LAMBDA lsrs :
      LET layer_s_matrix_0 == InitialSMatrix(lsrs[1], ths[1])
      IN  IF Len(lsrs) = 1 THEN Return(<<layer_s_matrix_0>>)
          ELSE Bind(_pair_s_matrix(lsrs[1], ths[1], lsrs[2], ths[2]),
                    LAMBDA layer_s_matrix_1 :
                 IF Len(lsrs) = 2
                 THEN Return(<<layer_s_matrix_0, layer_s_matrix_1>>)
                 ELSE Return(<<layer_s_matrix_0, layer_s_matrix_1>>
                             \o ScanAppend(layer_s_matrix_1, lsrs, ths, 3)))))

\* ----------------------------------------------------------- stack_s_matrix
\* Mutant: [0] instead of [-1].
stack_s_matrix_first(lsrs, ths) ==
    Bind(_stack_s_matrices(lsrs, ths), LAMBDA r :
        IF r.raised # None THEN r ELSE Return(r.value[1]))

stack_s_matrix(lsrs, ths) ==
    Bind(_stack_s_matrices(lsrs, ths), LAMBDA r :
        IF r.raised # None THEN r ELSE Return(r.value[Len(r.value)]))

\* ------------------------------------------------ stack_s_matrices_interior
\* seq[::-1]
Reverse(seq) == [i \in 1 .. Len(seq) |-> seq[Len(seq) + 1 - i]]

\* Mutant: s12 and s21 are not exchanged.
Reversed_s12(s) ==
    ScatteringMatrix(s.s22, s.s12, s.s21, s.s11,
                     s.end_layer_solve_result, s.end_layer_thickness,
                     s.start_layer_solve_result, s.start_layer_thickness)

\* The scattering matrix of the reversed stack: blocks and start/end exchanged.
Reversed(s) ==
    ScatteringMatrix(s.s22, s.s21, s.s12, s.s11,
                     s.end_layer_solve_result, s.end_layer_thickness,
                     s.start_layer_solve_result, s.start_layer_thickness)

stack_s_matrices_interior(lsrs, ths) ==
    Bind(_stack_s_matrices(lsrs, ths), LAMBDA before :
    IF before.raised # None THEN before
    ELSE
    Bind(_stack_s_matrices(Reverse(lsrs), Reverse(ths)), LAMBDA reverse :
    IF reverse.raised # None THEN reverse
    ELSE
    Bind(Reverse(reverse.value), LAMBDA rev :
        LET after == [i \in 1 .. Len(rev) |-> Reversed(rev[i])]
        IN  Return([i \in 1 .. Len(before.value) |->
                      <<before.value[i], after[i]>>]))))

\* ------------------------------------------------------ stack_s_matrix_scan
\* The layers are stacked along the leading axis: batch_shape[0] is their
\* number and x[k, ...] is layer k.  jax.lax.scan returns the final carry.
RECURSIVE ScanCarry(_, _, _, _)
ScanCarry(s_matrix0, lsrs, ths, k) ==
    IF k > Len(lsrs) THEN s_matrix0
    ELSE Bind(append_layer(s_matrix0, lsrs[k], ths[k]), LAMBDA s_matrix :
             ScanCarry(s_matrix, lsrs, ths, k + 1))

\* Mutant: the scan runs over x[2:] instead of x[1:].
stack_s_matrix_scan_skip(layer_solve_results0, layer_thicknesses0) ==
    Bind2(layer_solve_results0, layer_thicknesses0, LAMBDA lsrs, ths :
    IF Len(lsrs) # Len(ths) THEN Raise(Len(lsrs), Len(ths))
    ELSE
      LET eye == Diag(<<1, 1>>)
          start_solve_result == lsrs[1]
          s_matrix == ScatteringMatrix(eye, Zeros, Zeros, eye,
                                       start_solve_result, ths[1],
                                       start_solve_result, ths[1])
      IN  Return(ScanCarry(s_matrix, lsrs, ths, 3)))

stack_s_matrix_scan(layer_solve_results0, layer_thicknesses0) ==
    Bind2(layer_solve_results0, layer_thicknesses0, LAMBDA lsrs, ths :
    IF Len(lsrs) # Len(ths) THEN Raise(Len(lsrs), Len(ths))
    ELSE
      LET eye == Diag(<<1, 1>>)
          start_solve_result == lsrs[1]
          s_matrix == ScatteringMatrix(eye, Zeros, Zeros, eye,
                                       start_solve_result, ths[1],
                                       start_solve_result, ths[1])
      IN  Return(ScanCarry(s_matrix, lsrs, ths, 2)))

\* ------------------------------------------------------------ linear solves
\* The force_x64_solve flag of every utils.solve call a function makes, in
\* call order.
Repeat(seq, n) == [i \in 1 .. (n * Len(seq)) |-> seq[((i - 1) % Len(seq)) + 1]]

\* _pair_s_matrix and _extend_s_matrix: term1, term2, s11, s12.
PairSolves(force) == <<force, force, force, force>>
ExtendSolves(force) == <<force, force, force, force>>

StackSolves(n, m, force) ==
    IF LengthsDiffer(n, m) \/ n = 1 THEN <<>>
    ELSE PairSolves(force) \o Repeat(ExtendSolves(force), n - 2)

InteriorSolves(n, m, force) == StackSolves(n, m, force) \o StackSolves(n, m, force)

ScanSolves(n, m, force) ==
    IF n # m THEN <<>> ELSE Repeat(ExtendSolves(force), n - 1)

\* append_layer is called with its default force_x64_solve=False.
StarSolves(force) == ExtendSolves(FALSE) \o <<force, force, force, force>>


\* ------------------------------------------------------------ array shapes
\* The shape of every array _stack_s_matrices computes, for layers whose
\* arrays have leading batch dimensions.  A shape is a sequence of
\* dimensions; ShapeError stands for the exception a failed broadcast raises.
NumModes == 2
MaxDim == 3
ShapeError == <<0>>

Max(a, b) == IF a >= b THEN a ELSE b

PadTo(shape, n) ==
    [i \in 1 .. n |-> IF i <= n - Len(shape) THEN 1
                      ELSE shape[i - (n - Len(shape))]]

\* jnp.broadcast_shapes of two shapes.
Broadcast2(shape1, shape2) ==
    IF shape1 = ShapeError \/ shape2 = ShapeError THEN ShapeError
    ELSE LET n == Max(Len(shape1), Len(shape2))
             a == PadTo(shape1, n)
             b == PadTo(shape2, n)
         IN  IF \A i \in 1 .. n : a[i] = b[i] \/ a[i] = 1 \/ b[i] = 1
             THEN [i \in 1 .. n |-> IF a[i] = 1 THEN b[i] ELSE a[i]]
             ELSE ShapeError

\* The elements of an array of the given shape, as index tuples from 1.
Indices(shape) ==
    {index \in [1 .. Len(shape) -> 1 .. MaxDim] :
        \A j \in 1 .. Len(shape) : index[j] <= shape[j]}

\* The element of an operand of the given shape that element index of the
\* broadcast result is computed from: the operand's axes are aligned with
\* the last axes of the result, and an axis of size 1 is read at its only
\* element.
BroadcastIndex(shape, index) ==
    [j \in 1 .. Len(shape) |->
        IF shape[j] = 1 THEN 1 ELSE index[j + Len(index) - Len(shape)]]

\* fd = jnp.exp(1j * q * layer_thickness): the element of layer_thickness
\* (of shape t) that element index of fd is computed from, q being the
\* shape of the eigenvalues.
fd_thickness_index(q, t, index) == BroadcastIndex(t, index)

RECURSIVE broadcast_shapes(_)
broadcast_shapes(shapes) ==
    IF shapes = <<>> THEN <<>>
    ELSE Broadcast2(Head(shapes), broadcast_shapes(Tail(shapes)))

Leading(shape, k) == SubSeq(shape, 1, Len(shape) - k)
Trailing(shape, k) == SubSeq(shape, Len(shape) - k + 1, Len(shape))

\* a @ b
MatMulShape(a, b) ==
    IF a = ShapeError \/ b = ShapeError THEN ShapeError
    ELSE IF Len(a) < 2 \/ Len(b) < 2 THEN ShapeError
    ELSE IF a[Len(a)] # b[Len(b) - 1] THEN ShapeError
    ELSE LET batch == Broadcast2(Leading(a, 2), Leading(b, 2))
         IN  IF batch = ShapeError THEN ShapeError
             ELSE batch \o <<a[Len(a) - 1], b[Len(b)]>>

\* solve(a, b): a is a batch of square matrices and b a batch of matrices.
SolveShape(a, b) ==
    IF a = ShapeError \/ b = ShapeError THEN ShapeError
    ELSE IF Len(a) < 2 \/ Len(b) < 2 THEN ShapeError
    ELSE IF a[Len(a)] # a[Len(a) - 1] \/ a[Len(a)] # b[Len(b) - 1]
         THEN ShapeError
    ELSE LET batch == Broadcast2(Leading(a, 2), Leading(b, 2))
         IN  IF batch = ShapeError THEN ShapeError
             ELSE batch \o Trailing(b, 2)

\* x[..., jnp.newaxis]
NewAxisLast(x) == IF x = ShapeError THEN ShapeError ELSE x \o <<1>>

\* x[..., jnp.newaxis, :]
NewAxisRow(x) ==
    IF x = ShapeError \/ Len(x) < 1 THEN ShapeError
    ELSE Leading(x, 1) \o <<1, x[Len(x)]>>

\* misc.diag(x)
DiagShape(x) ==
    IF x = ShapeError \/ Len(x) < 1 THEN ShapeError
    ELSE x \o <<x[Len(x)]>>

\* The arrays of a LayerSolveResult with the given batch shape, as
\* fmm.broadcast_result returns them.
BroadcastResultShapes(batch_shape) ==
    [eigenvalues |-> batch_shape \o <<NumModes>>,
     eigenvectors |-> batch_shape \o <<NumModes, NumModes>>,
     omega_script_k_matrix |-> batch_shape \o <<NumModes, NumModes>>]

\* The interface matrices: i11 = i22 and i12 = i21 have the shape of
\* term1 + term2.
InterfaceShape(lsr, next_lsr) ==
    LET q == lsr.eigenvalues
        phi == lsr.eigenvectors
        omega_k == lsr.omega_script_k_matrix
        next_q == next_lsr.eigenvalues
        next_phi == next_lsr.eigenvectors
        next_omega_k == next_lsr.omega_script_k_matrix
        term1 == Broadcast2(
                     NewAxisLast(q),
                     SolveShape(MatMulShape(omega_k, phi),
                                Broadcast2(MatMulShape(next_omega_k, next_phi),
                                           NewAxisRow(next_q))))
        term2 == SolveShape(MatMulShape(omega_k, phi),
                            MatMulShape(omega_k, next_phi))
    IN  Broadcast2(term1, term2)

\* jnp.expand_dims(x, tuple(range(n))): n leading axes (none when n <= 0).
ExpandLeading(x, n) ==
    IF x = ShapeError THEN ShapeError
    ELSE [i \in 1 .. Max(n, 0) |-> 1] \o x

\* The shapes of (s11, s12, s21, s22) that _pair_s_matrix returns.
PairShapes(lsr, t, next_lsr, next_t) ==
    Bind(InterfaceShape(lsr, next_lsr), LAMBDA i11 :
    Bind2(Broadcast2(lsr.eigenvalues, t), Broadcast2(next_lsr.eigenvalues, next_t),
          LAMBDA fd, fd_next :
        LET fd_diag == ExpandLeading(DiagShape(fd), Len(i11) - Len(fd) - 1)
            s11 == SolveShape(i11, fd_diag)
            s12 == SolveShape(i11, Broadcast2(i11, NewAxisRow(fd_next)))
            s21 == MatMulShape(i11, s11)
            s22 == Broadcast2(MatMulShape(i11, s12),
                              Broadcast2(i11, NewAxisRow(fd_next)))
        IN  <<s11, s12, s21, s22>>))

\* The shapes of the four blocks that _extend_s_matrix returns.
ExtendShapes(blocks, lsr, t, next_lsr, next_t) ==
    Bind(InterfaceShape(lsr, next_lsr), LAMBDA i11 :
    Bind2(Broadcast2(lsr.eigenvalues, t), Broadcast2(next_lsr.eigenvalues, next_t),
          LAMBDA fd, fd_next :
        LET s11 == blocks[1]
            s12 == blocks[2]
            s21 == blocks[3]
            s22 == blocks[4]
            fd_s12 == Broadcast2(NewAxisLast(fd), s12)
        IN  Bind(Broadcast2(i11, MatMulShape(fd_s12, i11)), LAMBDA term3 :
            Bind2(SolveShape(term3, Broadcast2(NewAxisLast(fd), s11)),
                  SolveShape(term3,
                             Broadcast2(Broadcast2(MatMulShape(fd_s12, i11), i11),
                                        NewAxisRow(fd_next))),
                  LAMBDA s11_next, s12_next :
                <<s11_next,
                  s12_next,
                  Broadcast2(MatMulShape(MatMulShape(s22, i11), s11_next), s21),
                  Broadcast2(MatMulShape(MatMulShape(s22, i11), s12_next),
                             Broadcast2(MatMulShape(s22, i11),
                                        NewAxisRow(fd_next)))>>))))

AnyShapeError(blocks) == \E i \in 1 .. Len(blocks) : blocks[i] = ShapeError

\* jax.lax.scan over the layers after the second: every step must return a
\* carry with the shapes of the carry it was given.
RECURSIVE ScanShapes(_, _, _, _)
ScanShapes(blocks, lsr, t, k) ==
    IF k = 0 THEN <<>>
    ELSE LET next == ExtendShapes(blocks, lsr, t, lsr, t)
         IN  IF AnyShapeError(next) \/ next # blocks THEN <<ShapeError>>
             ELSE <<next>> \o ScanShapes(next, lsr, t, k - 1)

\* Mutant: the layers are used with their own batch shapes, not broadcast.
StackShapes_nobroadcast(batch_shapes0, thickness_shapes0) ==
    Bind2(broadcast_shapes(batch_shapes0), broadcast_shapes(thickness_shapes0),
          LAMBDA batch_shape, t_shape :
        IF batch_shape = ShapeError \/ t_shape = ShapeError
        THEN [raised |-> "ValueError", message |-> <<>>, value |-> None]
        ELSE
        Bind(BroadcastResultShapes(batch_shapes0[1]), LAMBDA lsr :
        LET n == Len(batch_shapes0)
            eye == DiagShape(lsr.eigenvalues)
            Matrix(blocks) ==
                [s11 |-> blocks[1], s12 |-> blocks[2], s21 |-> blocks[3],
                 s22 |-> blocks[4],
                 start_layer_solve_result |-> lsr,
                 start_layer_thickness |-> t_shape,
                 end_layer_solve_result |-> lsr,
                 end_layer_thickness |-> t_shape]
            layer_s_matrix_0 == <<eye, eye, eye, eye>>
        IN  IF n = 1 THEN Return(<<Matrix(layer_s_matrix_0)>>)
            ELSE Bind(PairShapes(lsr, t_shape, lsr, t_shape),
                      LAMBDA layer_s_matrix_1 :
                IF AnyShapeError(layer_s_matrix_1)
                THEN [raised |-> "TypeError", message |-> <<>>, value |-> None]
                ELSE IF n = 2
                THEN Return(<<Matrix(layer_s_matrix_0), Matrix(layer_s_matrix_1)>>)
                ELSE Bind(ScanShapes(layer_s_matrix_1, lsr, t_shape, n - 2),
                          LAMBDA remaining :
                    IF AnyShapeError(remaining)
                    THEN [raised |-> "TypeError", message |-> <<>>,
                          value |-> None]
                    ELSE Return(<<Matrix(layer_s_matrix_0),
                                  Matrix(layer_s_matrix_1)>>
                                \o [i \in 1 .. (n - 2) |-> Matrix(remaining[i])])))))

\* _stack_s_matrices on layers with the given batch shapes and thicknesses
\* with the given shapes (one per layer): the error a failed broadcast
\* raises, or one record of shapes per returned matrix.
StackShapes(batch_shapes0, thickness_shapes0) ==
    Bind2(broadcast_shapes(batch_shapes0), broadcast_shapes(thickness_shapes0),
          LAMBDA batch_shape, t_shape :
        IF batch_shape = ShapeError \/ t_shape = ShapeError
        THEN [raised |-> "ValueError", message |-> <<>>, value |-> None]
        ELSE
        Bind(BroadcastResultShapes(batch_shape), LAMBDA lsr :
        LET n == Len(batch_shapes0)
            eye == DiagShape(lsr.eigenvalues)
            Matrix(blocks) ==
                [s11 |-> blocks[1], s12 |-> blocks[2], s21 |-> blocks[3],
                 s22 |-> blocks[4],
                 start_layer_solve_result |-> lsr,
                 start_layer_thickness |-> t_shape,
                 end_layer_solve_result |-> lsr,
                 end_layer_thickness |-> t_shape]
            layer_s_matrix_0 == <<eye, eye, eye, eye>>
        IN  IF n = 1 THEN Return(<<Matrix(layer_s_matrix_0)>>)
            ELSE Bind(PairShapes(lsr, t_shape, lsr, t_shape),
                      LAMBDA layer_s_matrix_1 :
                IF AnyShapeError(layer_s_matrix_1)
                THEN [raised |-> "TypeError", message |-> <<>>, value |-> None]
                ELSE IF n = 2
                THEN Return(<<Matrix(layer_s_matrix_0), Matrix(layer_s_matrix_1)>>)
                ELSE Bind(ScanShapes(layer_s_matrix_1, lsr, t_shape, n - 2),
                          LAMBDA remaining :
                    IF AnyShapeError(remaining)
                    THEN [raised |-> "TypeError", message |-> <<>>,
                          value |-> None]
                    ELSE Return(<<Matrix(layer_s_matrix_0),
                                  Matrix(layer_s_matrix_1)>>
                                \o [i \in 1 .. (n - 2) |-> Matrix(remaining[i])])))))


\* ------------------------------------------------------------ _eig: numbers
\* Exact arithmetic for the backward rule of eig, in base 10^6.  Mono(c, k)
\* is the number c * 10^(6 k) with 0 <= c < 10^6, so _EIG_EPS_RELATIVE = 1e-12
\* is Mono(1, -2) and _EIG_EPS_MINIMUM = 1e-24 is Mono(1, -4).  A sum of such
\* numbers is a magnitude: Exps -> digit, the digit of exponent e counting
\* 10^(6 e).
Exps == -9 .. 3

Mono(c, k) == IF c = 0 THEN [c |-> 0, k |-> 0] ELSE [c |-> c, k |-> k]
MonoLess(x, y) ==
    IF y.c = 0 THEN FALSE
    ELSE IF x.c = 0 THEN TRUE
    ELSE x.k < y.k \/ (x.k = y.k /\ x.c < y.c)
MonoMax(x, y) == IF MonoLess(x, y) THEN y ELSE x
MonoTimes(x, y) == Mono(x.c * y.c, x.k + y.k)

RECURSIVE MonoMaxOf(_)
MonoMaxOf(S) ==
    IF S = {} THEN Mono(0, 0)
    ELSE LET x == CHOOSE x \in S : TRUE IN MonoMax(x, MonoMaxOf(S \ {x}))

Mag(x) == [e \in Exps |-> IF e = x.k THEN x.c ELSE 0]
MagAdd(x, y) == [e \in Exps |-> x[e] + y[e]]
MagTimes(c, x) == [e \in Exps |-> c * x[e]]
MagShift(x, j) == [e \in Exps |-> IF (e - j) \in Exps THEN x[e - j] ELSE 0]
MagLess(x, y) ==
    \E e \in Exps : x[e] < y[e] /\ \A d \in Exps : d > e => x[d] = y[d]

_EIG_EPS_RELATIVE == Mono(1, -2)
_EIG_EPS_MINIMUM == Mono(1, -4)

\* ------------------------------------------------------------------- _eig
\* A matrix is given by its eigenvalues (re + 1j * im) * 10^(6 scale), one
\* per eigenvector; column c of its eigenvector matrix is named c.  The
\* decomposition returns the pairs in an order the library chooses.
_eig(matrix, order) ==
    [eigenvalues |-> [b \in DOMAIN matrix |->
                        [scale |-> matrix[b].scale,
                         values |-> [c \in DOMAIN order[b] |->
                                        matrix[b].values[order[b][c]]]]],
     eigenvectors |-> order]

\* eig: `del eps_relative; return _eig(matrix)`.
eig(matrix, eps_relative, order) ==
    LET r == _eig(matrix, order) IN <<r.eigenvalues, r.eigenvectors>>

\* Mutant: the residuals come from a second decomposition, which returns
\* the pairs in another order.
_eig_fwd_again(matrix, eps_relative, order) ==
    LET r == _eig(matrix, order)
        again == _eig(matrix, [b \in DOMAIN order |-> Reverse(order[b])])
    IN  << <<r.eigenvalues, r.eigenvectors>>,
           <<again.eigenvalues, again.eigenvectors, eps_relative>> >>

_eig_fwd(matrix, eps_relative, order) ==
    LET r == _eig(matrix, order)
    IN  << <<r.eigenvalues, r.eigenvectors>>,
           <<r.eigenvalues, r.eigenvectors, eps_relative>> >>

\* delta_eig[b][r][c] = eigenvalues[b][c] - eigenvalues[b][r], a complex
\* number (re + 1j * im) * 10^(6 scale).
DeltaEig(eigenvalues_b) ==
    [r \in DOMAIN eigenvalues_b.values |->
        [c \in DOMAIN eigenvalues_b.values |->
            [re |-> eigenvalues_b.values[c][1] - eigenvalues_b.values[r][1],
             im |-> eigenvalues_b.values[c][2] - eigenvalues_b.values[r][2],
             scale |-> eigenvalues_b.scale]]]

\* jnp.abs(z) ** 2
AbsSq(z) == Mono(z.re * z.re + z.im * z.im, 2 * z.scale)

\* A quotient, kept as numerator and denominator: NaN or Inf when the
\* denominator is 0.
Quotient(num, den) == [num |-> num, den |-> den]

ZeroFactor ==
    [num |-> [re |-> 0, im |-> 0, scale |-> 0], den |-> Mag(Mono(1, 0))]

\* Mutant: the maximum is taken over the whole batch.
EigRangeSq_global(delta_eig, b) ==
    MonoMaxOf({AbsSq(delta_eig[a][r][c]) :
                 a \in DOMAIN delta_eig, r \in DOMAIN delta_eig[b],
                 c \in DOMAIN delta_eig[b]})

\* jnp.amax(jnp.abs(delta_eig) ** 2, axis=(-2, -1), keepdims=True), at batch
\* element b.
EigRangeSq(delta_eig, b) ==
    MonoMaxOf({AbsSq(delta_eig[b][r][c]) :
                 r \in DOMAIN delta_eig[b], c \in DOMAIN delta_eig[b]})

\* Mutant: no floor.
Eps_nofloor(eps_relative, eig_range_sq) == MonoTimes(eps_relative, eig_range_sq)

\* Mutant: a fixed eps, the floor.
Eps_fixed(eps_relative, eig_range_sq) == _EIG_EPS_MINIMUM

\* eps = jnp.maximum(eps_relative * eig_range_sq, _EIG_EPS_MINIMUM)
Eps(eps_relative, eig_range_sq) ==
    MonoMax(MonoTimes(eps_relative, eig_range_sq), _EIG_EPS_MINIMUM)

\* _eig_bwd up to f_broadened: the eigenvalues and eigenvectors it reads, eps
\* and the broadened factors of every batch element, and the gradient it
\* returns for eps_relative.  grad_matrix is built from f_broadened, the
\* eigenvectors and the incoming gradients by sums, products and one solve
\* against eigenvectors_H.
_eig_bwd(res) ==
    LET eigenvalues == res[1]
        eigenvectors == res[2]
        eps_relative == res[3]
    IN  Bind([b \in DOMAIN eigenvalues |-> DeltaEig(eigenvalues[b])],
             LAMBDA delta_eig :
        Bind([b \in DOMAIN eigenvalues |->
                 Eps(eps_relative, EigRangeSq(delta_eig, b))], LAMBDA eps :
            [eigenvalues |-> eigenvalues,
             eigenvectors |-> eigenvectors,
             eps |-> eps,
             f_broadened |->
                 [b \in DOMAIN eigenvalues |->
                     [r \in DOMAIN delta_eig[b] |->
                         [c \in DOMAIN delta_eig[b] |->
                             IF r = c THEN ZeroFactor
                             ELSE LET z == delta_eig[b][r][c]
                                  IN  Quotient([re |-> z.re, im |-> -z.im,
                                                scale |-> z.scale],
                                               MagAdd(Mag(AbsSq(z)),
                                                      Mag(eps[b])))]]],
             grad_eps_relative |-> None]))

\* ------------------------------------- brillouin_zone_in_plane_wavevector
\* a < b for two Python tuples of integers: the first entries that differ
\* decide, and a proper prefix is the smaller.
RECURSIVE TupleLess(_, _)
TupleLess(a, b) ==
    IF b = <<>> THEN FALSE
    ELSE IF a = <<>> THEN TRUE
    ELSE IF Head(a) # Head(b) THEN Head(a) < Head(b)
    ELSE TupleLess(Tail(a), Tail(b))

\* n // 2
FloorHalf(n) == n \div 2

\* jnp.arange(start, stop).shape[0]
ArangeLen(start, stop) == IF stop > start THEN stop - start ELSE 0

\* i.shape for i, j = jnp.meshgrid(arange(...) / udim, arange(...) / vdim,
\* indexing="ij"); dividing an empty array by 0 gives an empty array.
MeshgridShape(udim, vdim) ==
    <<ArangeLen(-FloorHalf(udim), udim - FloorHalf(udim)),
      ArangeLen(-FloorHalf(vdim), vdim - FloorHalf(vdim))>>

RaiseError(name) == [raised |-> name, value |-> None]

\* The error raised or the shape of the array returned, for primitive
\* lattice vectors without batch dimensions; assertions is FALSE when the
\* interpreter runs with assert statements removed (python -O).
brillouin_zone_in_plane_wavevector(brillouin_grid_shape, assertions) ==
    IF Len(brillouin_grid_shape) # 2
       \/ TupleLess(brillouin_grid_shape, <<1, 1>>)
    THEN RaiseError("ValueError")
    ELSE LET udim == brillouin_grid_shape[1]
             vdim == brillouin_grid_shape[2]
             i_shape == MeshgridShape(udim, vdim)
         IN  IF assertions /\ i_shape # brillouin_grid_shape
             THEN RaiseError("AssertionError")
             ELSE [raised |-> None, value |-> i_shape \o <<2>>]

\* ----------------------------------------------------- generate_expansion
\* A pair of lattice vectors with rational entries: the entries of u and v
\* are u[i] / den and v[i] / den.
LatticeVectors(u, v, den) == [u |-> u, v |-> v, den |-> den]

\* The numerator of x[0] * y[1] - x[1] * y[0].
_cross_product(x, y) == x[1] * y[2] - x[2] * y[1]

\* uprime = (v[1], -v[0]) / cross_product, vprime = (-u[1], u[0]) /
\* cross_product, for lattice vectors with integer entries.
_reciprocal(lattice_vectors) ==
    LatticeVectors(<<lattice_vectors.v[2], -lattice_vectors.v[1]>>,
                   <<-lattice_vectors.u[2], lattice_vectors.u[1]>>,
                   _cross_product(lattice_vectors.u, lattice_vectors.v))

Abs(x) == IF x < 0 THEN -x ELSE x

\* onp.arange(start, stop)
Arange(start, stop) == [i \in 1 .. ArangeLen(start, stop) |-> start + i - 1]

\* G1.flatten(), G2.flatten() of onp.meshgrid(g1, g2, indexing="ij"), as one
\* sequence of pairs.
MeshgridFlat(g1, g2) ==
    [i \in 1 .. (Len(g1) * Len(g2)) |->
        <<g1[((i - 1) \div Len(g2)) + 1], g2[((i - 1) % Len(g2)) + 1]>>]

\* onp.linalg.norm(G1 * u + G2 * v) ** 2 times den ** 2.
MagnitudeSq(lv, row) ==
    (row[1] * lv.u[1] + row[2] * lv.v[1])
      * (row[1] * lv.u[1] + row[2] * lv.v[1])
    + (row[1] * lv.u[2] + row[2] * lv.v[2])
        * (row[1] * lv.u[2] + row[2] * lv.v[2])

\* m * pi < k for integers 0 <= m < 33215, k >= 0: no fraction between pi and
\* 355 / 113 has a denominator that small.
TimesPiLess(m, k) == k > 0 /\ 355 * m <= 113 * k

\* magnitude < max_magnitude, with max_magnitude = sqrt(approximate_num_terms
\* * |u x v| / pi); the common factor den ** 2 cancels.
WithinCircle(lv, approximate_num_terms, row) ==
    TimesPiLess(MagnitudeSq(lv, row),
                approximate_num_terms * Abs(_cross_product(lv.u, lv.v)))

\* coeffs[order] for order = onp.argsort(magnitude, kind="stable"): by magnitude,
\* rows of equal magnitude in the order they have in coeffs.
RECURSIVE SortedFrom(_, _, _)
SortedFrom(lv, coeffs, keys) ==
    IF keys = {} THEN <<>>
    ELSE LET k == CHOOSE k \in keys : \A j \in keys : k <= j
         IN  SelectSeq(coeffs, LAMBDA row : MagnitudeSq(lv, row) = k)
             \o SortedFrom(lv, coeffs, keys \ {k})

StableSortByMagnitude(lv, coeffs) ==
    SortedFrom(lv, coeffs, {MagnitudeSq(lv, coeffs[i]) : i \in DOMAIN coeffs})

\* Mutant: the rows are returned in meshgrid order.
_basis_coefficients_circular_unsorted(lv, approximate_num_terms) ==
    SelectSeq(MeshgridFlat(Arange((-approximate_num_terms) \div 2,
                                  (approximate_num_terms \div 2) + 1),
                           Arange((-approximate_num_terms) \div 2,
                                  (approximate_num_terms \div 2) + 1)),
              LAMBDA row : WithinCircle(lv, approximate_num_terms, row))

_basis_coefficients_circular(lv, approximate_num_terms) ==
    Bind(Arange((-approximate_num_terms) \div 2,
                (approximate_num_terms \div 2) + 1), LAMBDA g :
    Bind(SelectSeq(MeshgridFlat(g, g),
                   LAMBDA row : WithinCircle(lv, approximate_num_terms, row)),
         LAMBDA coeffs : StableSortByMagnitude(lv, coeffs)))

\* nu >= k - 1/2 for nu = (-b + sqrt(b**2 - 4*a*c)) / (2*a) with a = 4 * ratio,
\* b = 2 * (ratio + 1), c = 1 - approximate_num_terms and ratio =
\* sqrt(num / den): that is approximate_num_terms - 2 k >= ratio * 2 k (2 k - 1).
\* strict asks for nu > k - 1/2.
QuadraticRootAtLeast(num, den, approximate_num_terms, k, strict) ==
    \/ k = 0
    \/ /\ approximate_num_terms - 2 * k >= 0
       /\ LET lhs == (approximate_num_terms - 2 * k)
                         * (approximate_num_terms - 2 * k) * den
              rhs == num * (2 * k * (2 * k - 1)) * (2 * k * (2 * k - 1))
          IN  IF strict THEN lhs > rhs ELSE lhs >= rhs

\* int(onp.around(nu)): the nearest integer, a half going to the even one.
_solve_quadratic(num, den, approximate_num_terms) ==
    LET ks == {k \in 0 .. approximate_num_terms :
                 QuadraticRootAtLeast(num, den, approximate_num_terms, k,
                                      k % 2 = 1)}
    IN  CHOOSE k \in ks : \A j \in ks : j <= k

\* ku_spacing ** 2 and kv_spacing ** 2 times den ** 2.
SpacingSq(x) == x[1] * x[1] + x[2] * x[2]

_basis_coefficients_parallelogramic(lv, approximate_num_terms) ==
    Bind2(_solve_quadratic(SpacingSq(lv.u), SpacingSq(lv.v),
                           approximate_num_terms),
          _solve_quadratic(SpacingSq(lv.v), SpacingSq(lv.u),
                           approximate_num_terms), LAMBDA nu, nv :
        StableSortByMagnitude(lv, MeshgridFlat(Arange(-nu, nu + 1),
                                               Arange(-nv, nv + 1))))

\* Expansion(basis_coefficients)
Expansion(basis_coefficients) == [basis_coefficients |-> basis_coefficients]

generate_expansion(primitive_lattice_vectors, approximate_num_terms, truncation) ==
    Bind(_reciprocal(primitive_lattice_vectors), LAMBDA reciprocal_vectors :
        IF truncation = "circular"
        THEN Return(Expansion(_basis_coefficients_circular(
                 reciprocal_vectors, approximate_num_terms)))
        ELSE IF truncation = "parallelogramic"
        THEN Return(Expansion(_basis_coefficients_parallelogramic(
                 reciprocal_vectors, approximate_num_terms)))
        ELSE RaiseError("ValueError"))

\* ------------------------------------------------------------ state machine
\* ------------------------------------------------ fourier_convolution_matrix
\* onp.amax(onp.abs(basis_coefficients[:, col]))
MaxAbsColumn(coeffs, col) ==
    LET values == {Abs(coeffs[i][col]) : i \in 1 .. Len(coeffs)}
    IN  CHOOSE v \in values : \A w \in values : w <= v

min_array_shape_for_expansion(expansion) ==
    <<2 * MaxAbsColumn(expansion.basis_coefficients, 1) + 1,
      2 * MaxAbsColumn(expansion.basis_coefficients, 2) + 1>>

\* shape is the last two dimensions of the array.
validate_shape_for_expansion(shape, expansion) ==
    LET min_shape == min_array_shape_for_expansion(expansion)
    IN  IF \E k \in 1 .. 2 : shape[k] < min_shape[k]
        THEN RaiseError("ValueError")
        ELSE Return(None)

\* idx[i][j] = basis_coefficients[i] - basis_coefficients[j]
_standard_toeplitz_indices(expansion) ==
    LET c == expansion.basis_coefficients
    IN  [i \in 1 .. Len(c) |->
            [j \in 1 .. Len(c) |-> <<c[i][1] - c[j][1], c[i][2] - c[j][2]>>]]

\* The element an array axis of length n is read at when indexed with d: a
\* negative index counts from the end, and an index outside the axis is
\* clamped to it.
IndexRead(d, n) ==
    LET k == IF d < 0 THEN d + n ELSE d
    IN  IF k < 0 THEN 0 ELSE IF k > n - 1 THEN n - 1 ELSE k

\* n * fftfreq(n)[k]: the frequency of bin k of a transform of length n.
fftfreq(n, k) == IF k <= (n - 1) \div 2 THEN k ELSE k - n

\* The bins of x_fft that the entries of the returned matrix are read from,
\* x having the given last two dimensions.
fourier_convolution_matrix(shape, expansion) ==
    IF validate_shape_for_expansion(shape, expansion).raised # None
    THEN validate_shape_for_expansion(shape, expansion)
    ELSE LET idx == _standard_toeplitz_indices(expansion)
         IN  Return([i \in DOMAIN idx |->
                        [j \in DOMAIN idx |->
                            <<IndexRead(idx[i][j][1], shape[1]),
                              IndexRead(idx[i][j][2], shape[2])>>]])

\* ------------------------------------------- Expansion.__eq__ and __hash__
\* An onp.ndarray of integers with two columns: its dtype and its rows.
ndarray(dtype, rows) == [dtype |-> dtype, rows |-> rows]

Shape(array) == <<Len(array.rows), 2>>

\* The bytes of an element of the dtype.
ItemSize(dtype) == IF dtype = "int32" THEN 4 ELSE 8

\* The bytes of the integer v (below 2^23 in magnitude) stored in size
\* bytes: two's complement, least significant byte first.
IntBytes(v, size) ==
    [k \in 1 .. size |->
        IF k <= 3 THEN (v \div (256 ^ (k - 1))) % 256
        ELSE IF v < 0 THEN 255 ELSE 0]

RECURSIVE RowsBytes(_, _)
RowsBytes(rows, size) ==
    IF rows = <<>> THEN <<>>
    ELSE IntBytes(Head(rows)[1], size) \o IntBytes(Head(rows)[2], size)
             \o RowsBytes(Tail(rows), size)

\* array.tobytes(): the elements in row-major order.
tobytes(array) == RowsBytes(array.rows, ItemSize(array.dtype))

\* hash(bytes): a function of the bytes and of the hash seed of the process
\* alone; a 16-bit multiplicative hash stands for the interpreter's.
RECURSIVE HashFrom(_, _)
HashFrom(h, bytes) ==
    IF bytes = <<>> THEN h
    ELSE HashFrom((h * 31 + Head(bytes) + 1) % 65521, Tail(bytes))

hash(bytes, seed) == HashFrom(seed, bytes)

__hash__(self, seed) == hash(tobytes(self.basis_coefficients), seed)

\* other is an Expansion.
__eq__(self, other) ==
    IF Shape(self.basis_coefficients) # Shape(other.basis_coefficients)
    THEN FALSE
    ELSE \A i \in 1 .. Len(self.basis_coefficients.rows) :
            \A k \in 1 .. 2 :
                self.basis_coefficients.rows[i][k]
                    = other.basis_coefficients.rows[i][k]

VARIABLES
    layer_solve_results,  \* the caller's layers, in stack order
    layer_thicknesses,    \* the caller's thicknesses
    pc,                   \* "start", "raised", "returned", "built", "edited",
                          \* "composed"
    op,                   \* the last call: its name and, for a star product,
                          \* the number of layers of its first operand
    ret,                  \* what the last call raised or returned
    s_matrix,             \* the scattering matrix the caller holds
    prev,                 \* the matrix the last edit was applied to
    solves,               \* the linear solves of the last call: the
                          \* force_x64_solve each was given
    force_x64_solve,      \* the force_x64_solve argument the last call gave
                          \* to redheffer_star_product, None if it was no
                          \* star product
    heap,                 \* the LayerSolveResult and ScatteringMatrix instances
                          \* the caller has a reference to, oldest first
    batch_shapes,         \* the batch shape of each layer given to
                          \* _stack_s_matrices
    thickness_shapes,     \* the shape of each thickness given to it
    shape_pc,             \* "start", then "raised" or "returned"
    shape_ret,            \* the error it raised, or the shapes of the arrays
                          \* of the matrices it returned
    eig_pc,               \* "start", "called", "forward", "backward"
    eig_matrix,           \* the batch of matrices eig is given
    eig_eps_relative,     \* its eps_relative
    eig_primals,          \* (eigenvalues, eigenvectors) returned to the caller
    eig_residuals,        \* what _eig_fwd kept for the backward pass
    eig_cotangents,       \* what _eig_bwd computed
    bz_pc,                \* "start", then "raised" or "returned"
    bz_grid_shape,        \* the brillouin_grid_shape given
    bz_assertions,        \* whether assert statements are executed
    bz_ret,               \* the error raised, or the shape of the array
                          \* returned
    basis_pc,             \* "start", then "raised" or "returned"
    basis_lattice,        \* the primitive_lattice_vectors given to
                          \* generate_expansion
    basis_num_terms,      \* its approximate_num_terms
    basis_truncation,     \* its truncation
    basis_ret,            \* the error raised, or the Expansion returned
    fft_pc,               \* "start", then "raised" or "returned"
    fft_shape,            \* the last two dimensions of the array x given to
                          \* fourier_convolution_matrix
    fft_expansion,        \* the expansion given to it
    fft_ret,              \* the error raised, or the bins the entries of
                          \* the returned matrix were read from
    expansion_pc,         \* "start", then "compared"
    expansion_a,          \* an Expansion
    expansion_b,          \* another
    hash_seed,            \* the hash seed of the process
    expansion_ret         \* a == b, hash(a) and hash(b)

scattering_vars == <<layer_solve_results, layer_thicknesses, pc, op, ret,
                     s_matrix, prev, solves, force_x64_solve, heap>>
shape_vars == <<batch_shapes, thickness_shapes, shape_pc, shape_ret>>
eig_vars == <<eig_pc, eig_matrix, eig_eps_relative, eig_primals, eig_residuals,
              eig_cotangents>>
bz_vars == <<bz_pc, bz_grid_shape, bz_assertions, bz_ret>>
basis_vars == <<basis_pc, basis_lattice, basis_num_terms, basis_truncation,
                basis_ret>>
fft_vars == <<fft_pc, fft_shape, fft_expansion, fft_ret>>
expansion_vars == <<expansion_pc, expansion_a, expansion_b, hash_seed,
                   expansion_ret>>
other_vars == <<shape_vars, eig_vars, bz_vars, basis_vars, fft_vars,
                expansion_vars>>
vars == <<scattering_vars, other_vars>>

NoEigCall ==
    /\ eig_pc = "start"
    /\ eig_matrix = <<>>
    /\ eig_eps_relative = None
    /\ eig_primals = None
    /\ eig_residuals = None
    /\ eig_cotangents = None

NoBrillouinCall ==
    /\ bz_pc = "start"
    /\ bz_grid_shape = <<>>
    /\ bz_assertions = TRUE
    /\ bz_ret = None

NoExpansionCall ==
    /\ expansion_pc = "start"
    /\ expansion_a = None
    /\ expansion_b = None
    /\ hash_seed = 0
    /\ expansion_ret = None

NoFftCall ==
    /\ fft_pc = "start"
    /\ fft_shape = <<>>
    /\ fft_expansion = None
    /\ fft_ret = None

NoBasisCall ==
    /\ basis_pc = "start"
    /\ basis_lattice = None
    /\ basis_num_terms = 0
    /\ basis_truncation = None
    /\ basis_ret = None

SeqsUpTo(S, lo, hi) == UNION {[1 .. n -> S] : n \in lo .. hi}

Init ==
    /\ layer_solve_results \in SeqsUpTo(LayerPalette, 1, MaxLayers)
    /\ layer_thicknesses \in SeqsUpTo(Thicknesses, 0, MaxLayers)
    /\ pc = "start"
    /\ op = [name |-> "init", split |-> 0]
    /\ ret = None
    /\ s_matrix = None
    /\ prev = None
    /\ solves = <<>>
    /\ force_x64_solve = None
    /\ heap = layer_solve_results
    /\ batch_shapes = <<>>
    /\ thickness_shapes = <<>>
    /\ shape_pc = "start"
    /\ shape_ret = None
    /\ NoEigCall
    /\ NoBrillouinCall
    /\ NoBasisCall
    /\ NoFftCall
    /\ NoExpansionCall

NumLayers == Len(layer_solve_results)
NumThicknesses == Len(layer_thicknesses)

\* Mutant: the call writes its result into the newest instance it was given.
New_inplace(h, made) == [h EXCEPT ![Len(h)] = made[Len(made)]]

\* ScatteringMatrix(...) constructs instances: every call returns the ones it
\* made and assigns to no attribute of an instance it was given.
New(h, made) == h \o made

RECURSIVE Flatten(_)
Flatten(pairs) ==
    IF pairs = <<>> THEN <<>> ELSE Head(pairs) \o Flatten(Tail(pairs))

\* A stack builder is called on the caller's layers and thicknesses; made is
\* the instances it returns.
Builder(name, r, log, keeps, made) ==
    /\ pc = "start"
    /\ ret' = r
    /\ heap' = IF ret'.raised # None THEN heap ELSE New(heap, made)
    /\ pc' = IF ret'.raised # None THEN "raised"
             ELSE IF keeps THEN "built" ELSE "returned"
    /\ s_matrix' = IF ret'.raised = None /\ keeps THEN ret'.value ELSE s_matrix
    /\ op' = [name |-> name, split |-> 0]
    /\ solves' = log
    /\ UNCHANGED <<layer_solve_results, layer_thicknesses, prev>>
    /\ UNCHANGED other_vars

Call_stack_s_matrix(force) ==
    /\ force_x64_solve' = None
    /\ Builder("stack_s_matrix",
            stack_s_matrix(layer_solve_results, layer_thicknesses),
            StackSolves(NumLayers, NumThicknesses, force), TRUE,
            <<ret'.value>>)

Call_stack_s_matrices(force) ==
    /\ force_x64_solve' = None
    /\ Builder("_stack_s_matrices",
            _stack_s_matrices(layer_solve_results, layer_thicknesses),
            StackSolves(NumLayers, NumThicknesses, force), FALSE,
            ret'.value)

Call_stack_s_matrices_interior(force) ==
    /\ force_x64_solve' = None
    /\ Builder("stack_s_matrices_interior",
            stack_s_matrices_interior(layer_solve_results, layer_thicknesses),
            InteriorSolves(NumLayers, NumThicknesses, force), FALSE,
            Flatten(ret'.value))

Call_stack_s_matrix_scan(force) ==
    /\ force_x64_solve' = None
    /\ Builder("stack_s_matrix_scan",
            stack_s_matrix_scan(layer_solve_results, layer_thicknesses),
            ScanSolves(NumLayers, NumThicknesses, force), FALSE,
            <<ret'.value>>)

\* The caller edits the matrix it holds, and its layer list the same way;
\* given is the instances it passes besides that matrix.
Edit(name, split, new, lsrs, ths, log, given) ==
    /\ pc = "built"
    /\ s_matrix' = new
    /\ heap' = New(heap \o given, <<s_matrix'>>)
    /\ ret' = Return(s_matrix')
    /\ prev' = s_matrix
    /\ layer_solve_results' = lsrs
    /\ layer_thicknesses' = ths
    /\ op' = [name |-> name, split |-> split]
    /\ solves' = log
    /\ pc' = "edited"
    /\ UNCHANGED other_vars

Call_append_layer(next_lsr, next_t, force) ==
    /\ NumLayers < MaxLayers
    /\ force_x64_solve' = None
    /\ Edit("append_layer", 0, append_layer(s_matrix, next_lsr, next_t),
            Append(layer_solve_results, next_lsr),
            Append(layer_thicknesses, next_t), ExtendSolves(force),
            <<next_lsr>>)

Call_prepend_layer(next_lsr, next_t, force) ==
    /\ NumLayers < MaxLayers
    /\ force_x64_solve' = None
    /\ Edit("prepend_layer", 0, prepend_layer(s_matrix, next_lsr, next_t),
            <<next_lsr>> \o layer_solve_results,
            <<next_t>> \o layer_thicknesses, ExtendSolves(force),
            <<next_lsr>>)

Call_set_end_layer_thickness(thickness) ==
    /\ force_x64_solve' = None
    /\ Edit("set_end_layer_thickness", 0,
         set_end_layer_thickness(s_matrix, thickness),
         layer_solve_results,
         [layer_thicknesses EXCEPT ![NumThicknesses] = thickness], <<>>, <<>>)

Call_set_start_layer_thickness(thickness) ==
    /\ force_x64_solve' = None
    /\ Edit("set_start_layer_thickness", 0,
         set_start_layer_thickness(s_matrix, thickness),
         layer_solve_results,
         [layer_thicknesses EXCEPT ![1] = thickness], <<>>, <<>>)

\* b is the matrix stack_s_matrix built for the layers that follow the
\* caller's.
Call_redheffer_star_product(b_lsrs, b_ths, force) ==
    /\ pc = "built"
    /\ Len(b_lsrs) = Len(b_ths)
    /\ force_x64_solve' = force
    /\ \E b \in {stack_s_matrix(b_lsrs, b_ths).value} :
           Edit("redheffer_star_product", NumLayers,
                redheffer_star_product(s_matrix, b),
                layer_solve_results \o b_lsrs,
                layer_thicknesses \o b_ths, StarSolves(force),
                b_lsrs \o <<b>>)

\* The caller composes the product it holds with c, the matrix stack_s_matrix
\* built for the layers that follow: redheffer_star_product(
\* redheffer_star_product(a, b), c).
Call_redheffer_star_product_again(c_lsrs, c_ths, force) ==
    /\ pc = "edited"
    /\ op.name = "redheffer_star_product"
    /\ Len(c_lsrs) = Len(c_ths)
    /\ \E c \in {stack_s_matrix(c_lsrs, c_ths).value} :
        /\ s_matrix' = redheffer_star_product(s_matrix, c)
        /\ heap' = New(heap \o c_lsrs \o <<c>>, <<s_matrix'>>)
    /\ ret' = Return(s_matrix')
    /\ prev' = s_matrix
    /\ layer_solve_results' = layer_solve_results \o c_lsrs
    /\ layer_thicknesses' = layer_thicknesses \o c_ths
    /\ op' = [name |-> "redheffer_star_product", split |-> NumLayers]
    /\ solves' = StarSolves(force)
    /\ force_x64_solve' = force
    /\ pc' = "composed"
    /\ UNCHANGED other_vars

Next ==
    \/ \E force \in BOOLEAN : Call_stack_s_matrix(force)
    \/ \E force \in BOOLEAN : Call_stack_s_matrices(force)
    \/ \E force \in BOOLEAN : Call_stack_s_matrices_interior(force)
    \/ \E force \in BOOLEAN : Call_stack_s_matrix_scan(force)
    \/ \E next_lsr \in LayerPalette, next_t \in Thicknesses, force \in BOOLEAN :
           Call_append_layer(next_lsr, next_t, force)
    \/ \E next_lsr \in LayerPalette, next_t \in Thicknesses, force \in BOOLEAN :
           Call_prepend_layer(next_lsr, next_t, force)
    \/ \E thickness \in Thicknesses : Call_set_end_layer_thickness(thickness)
    \/ \E thickness \in Thicknesses : Call_set_start_layer_thickness(thickness)
    \/ \E n \in 1 .. (MaxLayers - NumLayers) :
           \E b_lsrs \in [1 .. n -> LayerPalette], b_ths \in [1 .. n -> Thicknesses],
              force \in BOOLEAN :
               Call_redheffer_star_product(b_lsrs, b_ths, force)
    \/ \E n \in 1 .. (MaxLayers - NumLayers) :
           \E c_lsrs \in [1 .. n -> LayerPalette], c_ths \in [1 .. n -> Thicknesses],
              force \in BOOLEAN :
               Call_redheffer_star_product_again(c_lsrs, c_ths, force)

Spec == Init /\ [][Next]_vars

\* ------------------------------------------- state machine: batch shapes
\* The batch shapes the layers of one call are drawn from (the arrays of a
\* layer have these leading dimensions), and the shapes of its thicknesses.
BatchShapes == {<<>>, <<2>>, <<3>>, <<2, 1>>, <<1, 3>>, <<3, 2>>}
ThicknessShapes == {<<>>, <<2>>, <<3>>}

NoScatteringCall ==
    /\ layer_solve_results = <<>>
    /\ layer_thicknesses = <<>>
    /\ pc = "start"
    /\ op = [name |-> "init", split |-> 0]
    /\ ret = None
    /\ s_matrix = None
    /\ prev = None
    /\ solves = <<>>
    /\ force_x64_solve = None
    /\ heap = <<>>

InitShapes ==
    /\ NoScatteringCall
    /\ \E n \in 1 .. MaxLayers :
         /\ batch_shapes \in [1 .. n -> BatchShapes]
         /\ thickness_shapes \in [1 .. n -> ThicknessShapes]
    /\ shape_pc = "start"
    /\ shape_ret = None
    /\ NoEigCall
    /\ NoBrillouinCall
    /\ NoBasisCall
    /\ NoFftCall
    /\ NoExpansionCall

Call_stack_s_matrices_shapes ==
    /\ shape_pc = "start"
    /\ shape_ret' = StackShapes(batch_shapes, thickness_shapes)
    /\ shape_pc' = IF shape_ret'.raised # None THEN "raised" ELSE "returned"
    /\ UNCHANGED <<batch_shapes, thickness_shapes, scattering_vars, eig_vars,
                   bz_vars, basis_vars, fft_vars,
                   expansion_vars>>

NextShapes == Call_stack_s_matrices_shapes

SpecShapes == InitShapes /\ [][NextShapes]_vars

\* ---------------------------------------------------- state machine: eig
\* The eigenvalues of the matrices of a batch: those of the matrix
\* [[2, 0, 2], [0, -2, 0], [2, 0, -1]] (3, -2, -2), a fully degenerate
\* triple and three distinct complex values, each at the scales 1e-12 and 1.
Spectra ==
    { << <<3, 0>>, <<-2, 0>>, <<-2, 0>> >>,
      << <<1, 0>>, <<1, 0>>, <<1, 0>> >>,
      << <<0, 0>>, <<0, 1>>, <<2, 1>> >> }
Scales == {-2, 0}
Matrices == [scale : Scales, values : Spectra]
EpsRelatives == {_EIG_EPS_RELATIVE, Mono(1, -1)}
Orders == {<<1, 2, 3>>, <<3, 2, 1>>}

NoShapeCall ==
    /\ batch_shapes = <<>>
    /\ thickness_shapes = <<>>
    /\ shape_pc = "start"
    /\ shape_ret = None

InitEig ==
    /\ NoScatteringCall
    /\ NoShapeCall
    /\ NoBrillouinCall
    /\ NoBasisCall
    /\ NoFftCall
    /\ NoExpansionCall
    /\ eig_pc = "start"
    /\ eig_matrix \in SeqsUpTo(Matrices, 1, MaxBatch)
    /\ eig_eps_relative \in EpsRelatives
    /\ eig_primals = None
    /\ eig_residuals = None
    /\ eig_cotangents = None

\* eig is called outside differentiation.
Call_eig(order) ==
    /\ eig_pc = "start"
    /\ eig_primals' = eig(eig_matrix, eig_eps_relative, order)
    /\ eig_pc' = "called"
    /\ UNCHANGED <<eig_matrix, eig_eps_relative, eig_residuals, eig_cotangents>>
    /\ UNCHANGED <<scattering_vars, shape_vars, bz_vars, basis_vars, fft_vars,
                   expansion_vars>>

\* eig is differentiated: jax calls _eig_fwd, hands its first result to the
\* caller and keeps the second.
Call_eig_fwd(order) ==
    /\ eig_pc = "start"
    /\ eig_primals' = _eig_fwd(eig_matrix, eig_eps_relative, order)[1]
    /\ eig_residuals' = _eig_fwd(eig_matrix, eig_eps_relative, order)[2]
    /\ eig_pc' = "forward"
    /\ UNCHANGED <<eig_matrix, eig_eps_relative, eig_cotangents>>
    /\ UNCHANGED <<scattering_vars, shape_vars, bz_vars, basis_vars, fft_vars,
                   expansion_vars>>

\* jax calls _eig_bwd with what _eig_fwd kept.
Call_eig_bwd ==
    /\ eig_pc = "forward"
    /\ eig_cotangents' = _eig_bwd(eig_residuals)
    /\ eig_pc' = "backward"
    /\ UNCHANGED <<eig_matrix, eig_eps_relative, eig_primals, eig_residuals>>
    /\ UNCHANGED <<scattering_vars, shape_vars, bz_vars, basis_vars, fft_vars,
                   expansion_vars>>

NextEig ==
    \/ \E order \in [DOMAIN eig_matrix -> Orders] : Call_eig(order)
    \/ \E order \in [DOMAIN eig_matrix -> Orders] : Call_eig_fwd(order)
    \/ Call_eig_bwd

SpecEig == InitEig /\ [][NextEig]_vars

\* ----------------------------- state machine: Brillouin zone wavevectors
GridEntries == -1 .. MaxGrid

InitBrillouin ==
    /\ NoScatteringCall
    /\ NoShapeCall
    /\ NoEigCall
    /\ NoBasisCall
    /\ NoFftCall
    /\ NoExpansionCall
    /\ bz_pc = "start"
    /\ bz_grid_shape \in SeqsUpTo(GridEntries, 1, MaxGridRank)
    /\ bz_assertions \in BOOLEAN
    /\ bz_ret = None

Call_brillouin_zone_in_plane_wavevector ==
    /\ bz_pc = "start"
    /\ bz_ret' = brillouin_zone_in_plane_wavevector(bz_grid_shape,
                                                    bz_assertions)
    /\ bz_pc' = IF bz_ret'.raised # None THEN "raised" ELSE "returned"
    /\ UNCHANGED <<bz_grid_shape, bz_assertions, scattering_vars, shape_vars,
                   eig_vars, basis_vars, fft_vars,
                   expansion_vars>>

NextBrillouin == Call_brillouin_zone_in_plane_wavevector

SpecBrillouin == InitBrillouin /\ [][NextBrillouin]_vars

\* -------------------------------------- state machine: generate_expansion
\* Real-space lattices with integer entries: square, rectangular (2 x 1 and
\* 4 x 1), the rotated square of the tests, and two oblique ones.
Lattices ==
    { LatticeVectors(<<1, 0>>, <<0, 1>>, 1),
      LatticeVectors(<<2, 0>>, <<0, 1>>, 1),
      LatticeVectors(<<1, 1>>, <<1, -1>>, 1),
      LatticeVectors(<<1, 0>>, <<0, 4>>, 1),
      LatticeVectors(<<4, 0>>, <<0, 1>>, 1),
      LatticeVectors(<<2, 0>>, <<1, 2>>, 1),
      LatticeVectors(<<1, 0>>, <<3, 1>>, 1) }

Truncations == {"circular", "parallelogramic"}

InitBasis ==
    /\ NoScatteringCall
    /\ NoShapeCall
    /\ NoEigCall
    /\ NoBrillouinCall
    /\ NoFftCall
    /\ NoExpansionCall
    /\ basis_pc = "start"
    /\ basis_lattice \in Lattices
    /\ basis_num_terms \in 1 .. MaxTerms
    /\ basis_truncation \in Truncations
    /\ basis_ret = None

Call_generate_expansion ==
    /\ basis_pc = "start"
    /\ basis_ret' = generate_expansion(basis_lattice, basis_num_terms,
                                       basis_truncation)
    /\ basis_pc' = IF basis_ret'.raised # None THEN "raised" ELSE "returned"
    /\ UNCHANGED <<basis_lattice, basis_num_terms, basis_truncation,
                   scattering_vars, shape_vars, eig_vars, bz_vars, fft_vars,
                   expansion_vars>>

NextBasis == Call_generate_expansion

SpecBasis == InitBasis /\ [][NextBasis]_vars

\* ------------------------------ state machine: fourier_convolution_matrix
\* The expansions generate_expansion returns for up to MaxExpansionTerms
\* terms.
Expansions ==
    {generate_expansion(lv, n, tr).value :
        <<lv, n, tr>> \in {c \in Lattices \X (1 .. MaxExpansionTerms) \X Truncations :
                              generate_expansion(c[1], c[2], c[3]).raised = None}}

InitFft ==
    /\ NoScatteringCall
    /\ NoShapeCall
    /\ NoEigCall
    /\ NoBrillouinCall
    /\ NoBasisCall
    /\ NoExpansionCall
    /\ fft_pc = "start"
    /\ fft_shape \in (1 .. MaxExtent) \X (1 .. MaxExtent)
    /\ fft_expansion \in Expansions
    /\ fft_ret = None

Call_fourier_convolution_matrix ==
    /\ fft_pc = "start"
    /\ fft_ret' = fourier_convolution_matrix(fft_shape, fft_expansion)
    /\ fft_pc' = IF fft_ret'.raised # None THEN "raised" ELSE "returned"
    /\ UNCHANGED <<fft_shape, fft_expansion, scattering_vars, shape_vars,
                   eig_vars, bz_vars, basis_vars, expansion_vars>>

NextFft == Call_fourier_convolution_matrix

SpecFft == InitFft /\ [][NextFft]_vars

\* ------------------------------- state machine: comparing two Expansions
Dtypes == {"int32", "int64"}

CoefficientRows ==
    SeqsUpTo((-MaxCoefficient .. MaxCoefficient)
                 \X (-MaxCoefficient .. MaxCoefficient), 1, MaxRows)

HashSeeds == {0, 1}

InitExpansion ==
    /\ NoScatteringCall
    /\ NoShapeCall
    /\ NoEigCall
    /\ NoBrillouinCall
    /\ NoBasisCall
    /\ NoFftCall
    /\ expansion_pc = "start"
    /\ \E dtype \in Dtypes, rows \in CoefficientRows :
           expansion_a = Expansion(ndarray(dtype, rows))
    /\ \E dtype \in Dtypes, rows \in CoefficientRows :
           expansion_b = Expansion(ndarray(dtype, rows))
    /\ hash_seed \in HashSeeds
    /\ expansion_ret = None

\* The caller evaluates a == b, hash(a) and hash(b).
Call_eq_and_hash ==
    /\ expansion_pc = "start"
    /\ expansion_ret' = [eq |-> __eq__(expansion_a, expansion_b),
                         hash_a |-> __hash__(expansion_a, hash_seed),
                         hash_b |-> __hash__(expansion_b, hash_seed)]
    /\ expansion_pc' = "compared"
    /\ UNCHANGED <<expansion_a, expansion_b, hash_seed, scattering_vars,
                   shape_vars, eig_vars, bz_vars, basis_vars, fft_vars>>

NextExpansion == Call_eq_and_hash

SpecExpansion == InitExpansion /\ [][NextExpansion]_vars

\* ------------------------------------------------------------------ claims
Called(name) == op.name = name
Matched == NumLayers = NumThicknesses

\* The caller's layer k as a scattering matrix references it: the solve
\* result without its tangent_vector_field (C19 is about that field).
Layer(k) == StripTangent(layer_solve_results[k])

Prefix(seq, k) == SubSeq(seq, 1, k)
Suffix(seq, k) == SubSeq(seq, k, Len(seq))

\* No block is the poison of a singular solve.
Finite(s) == ~IsNaN(s.s11) /\ ~IsNaN(s.s12) /\ ~IsNaN(s.s21) /\ ~IsNaN(s.s22)

StartsAt(s, k) ==
    /\ s.start_layer_solve_result = Layer(k)
    /\ s.start_layer_thickness = layer_thicknesses[k]

EndsAt(s, k) ==
    /\ s.end_layer_solve_result = Layer(k)
    /\ s.end_layer_thickness = layer_thicknesses[k]

SameBlocks(s, u) ==
    /\ s.s11 = u.s11
    /\ s.s12 = u.s12
    /\ s.s21 = u.s21
    /\ s.s22 = u.s22

\* C1: stack_s_matrix on one layer and one thickness returns s11 = s22 =
\* identity and s12 = s21 = zero, and the start layer and the end layer of
\* the result are both that layer, with that thickness.
C1_SingleLayerIdentity ==
    (Called("stack_s_matrix") /\ NumLayers = 1 /\ NumThicknesses = 1) =>
        /\ ret.raised = None
        /\ ret.value.s11 = << <<1, 0>>, <<0, 1>> >>
        /\ ret.value.s22 = << <<1, 0>>, <<0, 1>> >>
        /\ ret.value.s12 = << <<0, 0>>, <<0, 0>> >>
        /\ ret.value.s21 = << <<0, 0>>, <<0, 0>> >>
        /\ StartsAt(ret.value, 1)
        /\ EndsAt(ret.value, 1)

C1_Witness ==
    /\ Called("stack_s_matrix")
    /\ NumLayers = 1
    /\ NumThicknesses = 1
    /\ layer_thicknesses[1] = 1
    /\ layer_solve_results[1] = LayerA
    /\ ret.raised = None

\* C2: stack_s_matrix, stack_s_matrices_interior and stack_s_matrix_scan raise
\* a ValueError whenever the number of layers differs from the number of
\* thicknesses: no linear solve has been done, nothing is returned, and the
\* message shows both counts.
C2_LengthMismatchRaises ==
    ((Called("stack_s_matrix") \/ Called("stack_s_matrices_interior")
        \/ Called("stack_s_matrix_scan")) /\ ~Matched) =>
        /\ ret.raised = "ValueError"
        /\ pc = "raised"
        /\ ret.value = None
        /\ ret.message = <<NumLayers, NumThicknesses>>
        /\ solves = <<>>

C2_Witness ==
    /\ Called("stack_s_matrices_interior")
    /\ NumLayers = 3
    /\ NumThicknesses = 2
    /\ ret.raised = "ValueError"

\* C3: for N >= 1 layers with N thicknesses _stack_s_matrices returns N
\* matrices; the k-th is the matrix of the first k layers (what the function
\* returns last for those layers alone), it starts at the first layer and
\* ends at layer k, with their thicknesses; stack_s_matrix returns the last.
C3_PrefixMatrices ==
    /\ (Called("_stack_s_matrices") /\ Matched) =>
        /\ ret.raised = None
        /\ Len(ret.value) = NumLayers
        /\ \A k \in 1 .. NumLayers :
            /\ StartsAt(ret.value[k], 1)
            /\ EndsAt(ret.value[k], k)
            /\ ret.value[k] =
                 _stack_s_matrices(Prefix(layer_solve_results, k),
                                   Prefix(layer_thicknesses, k)).value[k]
    /\ (Called("stack_s_matrix") /\ Matched) =>
        /\ ret.raised = None
        /\ StartsAt(ret.value, 1)
        /\ EndsAt(ret.value, NumLayers)
        /\ ret.value = _stack_s_matrices(layer_solve_results,
                                         layer_thicknesses).value[NumLayers]

C3_Witness ==
    /\ Called("_stack_s_matrices")
    /\ NumLayers = 3
    /\ NumThicknesses = 3
    /\ Len(ret.value) = 3
    /\ layer_solve_results[1] # layer_solve_results[3]
    /\ layer_thicknesses[1] # layer_thicknesses[3]
    /\ Finite(ret.value[3])

\* The identity matrix of the first layer, then append_layer once per layer
\* 2 .. k in ascending order.
RECURSIVE Appended(_)
Appended(k) ==
    IF k = 1 THEN InitialSMatrix(Layer(1), layer_thicknesses[1])
    ELSE append_layer(Appended(k - 1), Layer(k), layer_thicknesses[k])

\* C4: for N >= 2 layers the k-th matrix of _stack_s_matrices, and the result
\* of stack_s_matrix, is the identity matrix of the first layer extended by
\* append_layer once per following layer, in order; _pair_s_matrix of the
\* first two layers is append_layer applied to that identity matrix.
C4_StackIsIteratedAppend ==
    /\ (Called("_stack_s_matrices") /\ Matched /\ NumLayers >= 2) =>
        /\ \A k \in 2 .. NumLayers : ret.value[k] = Appended(k)
        /\ _pair_s_matrix(Layer(1), layer_thicknesses[1],
                          Layer(2), layer_thicknesses[2])
             = append_layer(InitialSMatrix(Layer(1), layer_thicknesses[1]),
                            Layer(2), layer_thicknesses[2])
    /\ (Called("stack_s_matrix") /\ Matched /\ NumLayers >= 2) =>
        ret.value = Appended(NumLayers)

C4_Witness ==
    /\ Called("_stack_s_matrices")
    /\ NumLayers = 3
    /\ NumThicknesses = 3
    /\ layer_solve_results[1] # layer_solve_results[2]
    /\ layer_solve_results[2] # layer_solve_results[3]
    /\ Finite(ret.value[3])
    /\ ret.value[3].s12 # Zeros
    /\ ret.value[2].s21 # Zeros

\* C5 (as claimed): for N >= 1 layers stack_s_matrix_scan returns the same
\* four blocks and the same start layer and end layer, with their
\* thicknesses, as stack_s_matrix for the same layers.
C5_ScanEqualsSequenceExactly ==
    (Called("stack_s_matrix_scan") /\ Matched) =>
        ret.value = stack_s_matrix(layer_solve_results, layer_thicknesses).value

\* C5 (amended): for N >= 1 layers stack_s_matrix_scan returns the four
\* blocks, the thicknesses and the start layer (the first) and end layer (the
\* last) that stack_s_matrix returns for the same layers, except for the
\* layers' tangent_vector_field, which the scan keeps as the caller gave it
\* and stack_s_matrix sets to None.
C5_ScanEqualsSequence ==
    (Called("stack_s_matrix_scan") /\ Matched) =>
        /\ ret.raised = None
        /\ LET seq == stack_s_matrix(layer_solve_results, layer_thicknesses).value
           IN  /\ SameBlocks(ret.value, seq)
               /\ StripTangent(ret.value.start_layer_solve_result)
                    = seq.start_layer_solve_result
               /\ StripTangent(ret.value.end_layer_solve_result)
                    = seq.end_layer_solve_result
               /\ ret.value.start_layer_thickness = seq.start_layer_thickness
               /\ ret.value.end_layer_thickness = seq.end_layer_thickness
        /\ ret.value.start_layer_solve_result = layer_solve_results[1]
        /\ ret.value.end_layer_solve_result = layer_solve_results[NumLayers]

C5_Witness ==
    /\ Called("stack_s_matrix_scan")
    /\ NumLayers = 3
    /\ NumThicknesses = 3
    /\ layer_solve_results[1].tangent_vector_field # None
    /\ layer_solve_results[1] # layer_solve_results[2]
    /\ layer_thicknesses[2] = 1
    /\ Finite(ret.value)
    /\ ret.value.s21 # Zeros

\* C6: for N >= 1 layers stack_s_matrices_interior returns N pairs; in pair i
\* the "before" matrix starts at the first layer and ends at layer i, the
\* "after" matrix starts at layer i and ends at the last layer, and the
\* blocks of "after" are those of the matrix of the first N-i+1 layers of the
\* reversed sequence, s11 exchanged with s22 and s12 with s21.
C6_InteriorPairs ==
    (Called("stack_s_matrices_interior") /\ Matched) =>
        /\ ret.raised = None
        /\ Len(ret.value) = NumLayers
        /\ LET reverse == _stack_s_matrices(Reverse(layer_solve_results),
                                            Reverse(layer_thicknesses)).value
           IN  \A i \in 1 .. NumLayers :
                 LET before == ret.value[i][1]
                     after == ret.value[i][2]
                     r == reverse[NumLayers - i + 1]
                 IN  /\ StartsAt(before, 1)
                     /\ EndsAt(before, i)
                     /\ StartsAt(after, i)
                     /\ EndsAt(after, NumLayers)
                     /\ after.s11 = r.s22
                     /\ after.s22 = r.s11
                     /\ after.s12 = r.s21
                     /\ after.s21 = r.s12

C6_Witness ==
    /\ Called("stack_s_matrices_interior")
    /\ NumLayers = 3
    /\ NumThicknesses = 3
    /\ layer_solve_results[1] # layer_solve_results[2]
    /\ layer_thicknesses[2] # layer_thicknesses[3]
    /\ Finite(ret.value[2][2])
    /\ ret.value[2][2].s12 # ret.value[2][2].s21

\* C7: where no solve is singular, the matrix of the reversed sequence with
\* s11 exchanged with s22 and s12 with s21 has the blocks of the matrix of
\* the sequence; so the "after" matrix of the first layer is the "before"
\* matrix of the last layer.
C7_ReversalSymmetry ==
    /\ (Called("stack_s_matrix") /\ Matched) =>
        LET r == stack_s_matrix(Reverse(layer_solve_results),
                                Reverse(layer_thicknesses)).value
        IN  (Finite(ret.value) /\ Finite(r)) =>
              /\ ret.value.s11 = r.s22
              /\ ret.value.s22 = r.s11
              /\ ret.value.s12 = r.s21
              /\ ret.value.s21 = r.s12
    /\ (Called("stack_s_matrices_interior") /\ Matched) =>
        LET after_first == ret.value[1][2]
            before_last == ret.value[NumLayers][1]
        IN  (Finite(after_first) /\ Finite(before_last)) =>
              after_first = before_last

C7_Witness ==
    /\ Called("stack_s_matrices_interior")
    /\ NumLayers = 3
    /\ NumThicknesses = 3
    /\ layer_solve_results[1] # layer_solve_results[3]
    /\ layer_thicknesses[1] # layer_thicknesses[3]
    /\ Finite(ret.value[1][2])
    /\ Finite(ret.value[3][1])
    /\ ret.value[3][1].s12 # Zeros
    /\ ret.value[3][1].s11 # ret.value[3][1].s22

\* C8 (as claimed): for a matrix built by stack_s_matrix from one or more
\* layers, set_end_layer_thickness(s, t2) is the matrix stack_s_matrix builds
\* for the same layers with the last thickness set to t2.
C8_ThicknessRewriteIsRebuild ==
    Called("set_end_layer_thickness") =>
        s_matrix = stack_s_matrix(layer_solve_results, layer_thicknesses).value

\* C9: set_end_layer_thickness leaves s11, s21, the start layer and its
\* thickness and the end layer solve result as they were, and
\* set_start_layer_thickness leaves s12, s22 and the end layer and its
\* thickness as they were.
C9_ThicknessRewriteFrame ==
    /\ Called("set_end_layer_thickness") =>
        /\ s_matrix.s11 = prev.s11
        /\ s_matrix.s21 = prev.s21
        /\ s_matrix.start_layer_solve_result = prev.start_layer_solve_result
        /\ s_matrix.start_layer_thickness = prev.start_layer_thickness
        /\ s_matrix.end_layer_solve_result = prev.end_layer_solve_result
        /\ s_matrix.end_layer_thickness = layer_thicknesses[NumLayers]
    /\ Called("set_start_layer_thickness") =>
        /\ s_matrix.s12 = prev.s12
        /\ s_matrix.s22 = prev.s22
        /\ s_matrix.end_layer_solve_result = prev.end_layer_solve_result
        /\ s_matrix.end_layer_thickness = prev.end_layer_thickness
        /\ s_matrix.start_layer_solve_result = prev.start_layer_solve_result
        /\ s_matrix.start_layer_thickness = layer_thicknesses[1]

C9_Witness ==
    /\ Called("set_end_layer_thickness")
    /\ NumLayers = 3
    /\ Finite(prev)
    /\ prev.s21 # Zeros
    /\ s_matrix.end_layer_thickness # prev.end_layer_thickness
    /\ s_matrix.s12 # prev.s12
    /\ s_matrix.s22 # prev.s22

\* C10: with A the matrix stack_s_matrix built for the first k layers and B
\* the one it built for the layers after them, redheffer_star_product(A, B)
\* starts at A's start layer, ends at B's end layer and, where no solve is
\* singular, has the four blocks of stack_s_matrix of all the layers.
C10_StarProductIsStack ==
    (Called("redheffer_star_product") /\ pc = "edited") =>
        LET a == stack_s_matrix(Prefix(layer_solve_results, op.split),
                                Prefix(layer_thicknesses, op.split)).value
            b == stack_s_matrix(Suffix(layer_solve_results, op.split + 1),
                                Suffix(layer_thicknesses, op.split + 1)).value
            whole == stack_s_matrix(layer_solve_results, layer_thicknesses).value
        IN  /\ prev = a
            /\ s_matrix.start_layer_solve_result = a.start_layer_solve_result
            /\ s_matrix.start_layer_thickness = a.start_layer_thickness
            /\ s_matrix.end_layer_solve_result = b.end_layer_solve_result
            /\ s_matrix.end_layer_thickness = b.end_layer_thickness
            /\ StartsAt(s_matrix, 1)
            /\ EndsAt(s_matrix, NumLayers)
            /\ (Finite(s_matrix) /\ Finite(whole)) => SameBlocks(s_matrix, whole)

C10_Witness ==
    /\ Called("redheffer_star_product")
    /\ pc = "edited"
    /\ NumLayers = 3
    /\ op.split = 1
    /\ layer_solve_results[1] # layer_solve_results[2]
    /\ layer_solve_results[2] # layer_solve_results[3]
    /\ layer_thicknesses[2] = 1
    /\ Finite(s_matrix)
    /\ s_matrix.s12 # Zeros
    /\ s_matrix.s21 # Zeros

\* The matrix stack_s_matrix builds for layers i .. j of the caller's list.
Substack(i, j) ==
    stack_s_matrix(SubSeq(layer_solve_results, i, j),
                   SubSeq(layer_thicknesses, i, j)).value

SameLayerData(s, u) ==
    /\ s.start_layer_solve_result = u.start_layer_solve_result
    /\ s.start_layer_thickness = u.start_layer_thickness
    /\ s.end_layer_solve_result = u.end_layer_solve_result
    /\ s.end_layer_thickness = u.end_layer_thickness

\* C11: with A, B, C the matrices of three consecutive substacks, the product
\* redheffer_star_product(redheffer_star_product(A, B), C) the caller composed
\* has the start and end layer data of redheffer_star_product(A,
\* redheffer_star_product(B, C)) and, where no solve is singular, its four
\* blocks.
C11_StarProductAssociative ==
    (Called("redheffer_star_product") /\ pc = "composed") =>
        \A i \in 1 .. (op.split - 1) :
            Bind2(Substack(1, i), Substack(i + 1, op.split), LAMBDA a, b :
                prev = redheffer_star_product(a, b) =>
                  Bind(Substack(op.split + 1, NumLayers), LAMBDA c :
                  Bind(redheffer_star_product(a, redheffer_star_product(b, c)),
                       LAMBDA right :
                      /\ s_matrix = redheffer_star_product(prev, c)
                      /\ SameLayerData(s_matrix, right)
                      /\ (Finite(s_matrix) /\ Finite(right)) =>
                            SameBlocks(s_matrix, right))))

C11_Witness ==
    /\ Called("redheffer_star_product")
    /\ pc = "composed"
    /\ NumLayers = 3
    /\ layer_solve_results[1] # layer_solve_results[2]
    /\ layer_solve_results[2] # layer_solve_results[3]
    /\ layer_thicknesses[2] = 1
    /\ Finite(s_matrix)
    /\ Finite(redheffer_star_product(Substack(1, 1),
                  redheffer_star_product(Substack(2, 2), Substack(3, 3))))
    /\ s_matrix.s12 # Zeros
    /\ s_matrix.s21 # Zeros

\* s with s11 exchanged with s22, s12 with s21 and the start layer data with
\* the end layer data.
Swap(s) ==
    ScatteringMatrix(s.s22, s.s21, s.s12, s.s11,
                     s.end_layer_solve_result, s.end_layer_thickness,
                     s.start_layer_solve_result, s.start_layer_thickness)

\* C12: prepend_layer(S, L, t) is swap(append_layer(swap(S), L, t)); its
\* start layer is L with thickness t and its end layer data are those of S.
C12_PrependIsSwappedAppend ==
    Called("prepend_layer") =>
        /\ s_matrix = Swap(append_layer(Swap(prev), layer_solve_results[1],
                                        layer_thicknesses[1]))
        /\ s_matrix.start_layer_solve_result = layer_solve_results[1]
        /\ s_matrix.start_layer_thickness = layer_thicknesses[1]
        /\ s_matrix.end_layer_solve_result = prev.end_layer_solve_result
        /\ s_matrix.end_layer_thickness = prev.end_layer_thickness

C12_Witness ==
    /\ Called("prepend_layer")
    /\ NumLayers = 3
    /\ layer_solve_results[1] # layer_solve_results[2]
    /\ layer_thicknesses[1] # layer_thicknesses[3]
    /\ prev.s12 # Zeros
    /\ Finite(s_matrix)
    /\ s_matrix.s11 # s_matrix.s22
    /\ s_matrix.s12 # s_matrix.s21

ScalarThicknesses == \A k \in 1 .. Len(thickness_shapes) : thickness_shapes[k] = <<>>

\* The shapes are broadcast-compatible with the shape they broadcast to:
\* aligned at the last dimension, every layer's dimension is 1 or that of
\* the result.
CompatibleWith(shape) ==
    \A k \in 1 .. Len(batch_shapes) :
        /\ Len(batch_shapes[k]) <= Len(shape)
        /\ \A i \in 1 .. Len(batch_shapes[k]) :
            LET d == batch_shapes[k][i]
                r == shape[i + Len(shape) - Len(batch_shapes[k])]
            IN  d = r \/ d = 1

\* The broadcast of the layers' batch shapes, where there is one: the
\* smallest shape they are all compatible with.
IsBroadcast(shape) ==
    /\ CompatibleWith(shape)
    /\ \E k \in 1 .. Len(batch_shapes) : Len(batch_shapes[k]) = Len(shape)
    /\ \A i \in 1 .. Len(shape) :
        \E k \in 1 .. Len(batch_shapes) :
            /\ i > Len(shape) - Len(batch_shapes[k])
            /\ batch_shapes[k][i - (Len(shape) - Len(batch_shapes[k]))] = shape[i]

BroadcastCompatible ==
    \A k, l \in 1 .. Len(batch_shapes) :
        \A i \in 1 .. Len(batch_shapes[k]), j \in 1 .. Len(batch_shapes[l]) :
            (Len(batch_shapes[k]) - i = Len(batch_shapes[l]) - j) =>
                \/ batch_shapes[k][i] = batch_shapes[l][j]
                \/ batch_shapes[k][i] = 1
                \/ batch_shapes[l][j] = 1

\* C14: with scalar thicknesses, when the layers' batch shapes are
\* broadcast-compatible _stack_s_matrices returns one matrix per layer, each
\* with blocks of shape broadcast(batch shapes) + (N, N) and start and end
\* solve results of that batch shape; when they are not, it raises and
\* returns no matrix.
C14_BatchShapesBroadcast ==
    (shape_pc # "start" /\ ScalarThicknesses) =>
        /\ BroadcastCompatible =>
            /\ shape_pc = "returned"
            /\ shape_ret.raised = None
            /\ Len(shape_ret.value) = Len(batch_shapes)
            /\ \A k \in 1 .. Len(shape_ret.value) :
                LET m == shape_ret.value[k]
                    batch == Leading(m.s11, 2)
                IN  /\ IsBroadcast(batch)
                    /\ \A b \in {m.s11, m.s12, m.s21, m.s22} :
                           b = batch \o <<NumModes, NumModes>>
                    /\ \A r \in {m.start_layer_solve_result,
                                 m.end_layer_solve_result} :
                        /\ r.eigenvalues = batch \o <<NumModes>>
                        /\ r.eigenvectors = batch \o <<NumModes, NumModes>>
                        /\ r.omega_script_k_matrix = batch \o <<NumModes, NumModes>>
        /\ ~BroadcastCompatible =>
            /\ shape_pc = "raised"
            /\ shape_ret.raised = "ValueError"
            /\ shape_ret.value = None

C14_Witness ==
    /\ shape_pc = "returned"
    /\ ScalarThicknesses
    /\ Len(batch_shapes) = 3
    /\ batch_shapes[1] = <<2, 1>>
    /\ batch_shapes[2] = <<3>>
    /\ batch_shapes[3] = <<>>
    /\ shape_ret.raised = None
    /\ shape_ret.value[3].s12 = <<2, 3, 2, 2>>

C14_WitnessIncompatible ==
    /\ shape_pc = "raised"
    /\ ScalarThicknesses
    /\ batch_shapes = << <<3, 2>>, <<3>> >>
    /\ shape_ret.raised = "ValueError"

\* ----------------------------------------------- claims: edits of a stack
\* The matrix stack_s_matrix builds for the caller's layers as they are
\* after the edit.
Rebuilt == stack_s_matrix(layer_solve_results, layer_thicknesses).value

\* C25 (as claimed): prepend_layer(stack_s_matrix(L1..Ln), L0, t0) equals
\* stack_s_matrix(L0..Ln) in all four blocks and in the start and end layer
\* data.
C25_PrependIsStackExactly ==
    (Called("prepend_layer") /\ Finite(s_matrix)) =>
        Bind(Rebuilt, LAMBDA u :
            Finite(u) =>
                /\ SameBlocks(s_matrix, u)
                /\ SameLayerData(s_matrix, u))

\* C25 (amended): where no solve is singular, prepend_layer(
\* stack_s_matrix(L1..Ln), L0, t0) has the four blocks, the thicknesses and
\* the end layer solve result of stack_s_matrix(L0..Ln); its start layer
\* solve result is L0 as given, which is that of stack_s_matrix(L0..Ln)
\* except for tangent_vector_field.
C25_PrependIsStack ==
    (Called("prepend_layer") /\ Finite(s_matrix)) =>
        Bind(Rebuilt, LAMBDA u :
            Finite(u) =>
                /\ SameBlocks(s_matrix, u)
                /\ s_matrix.start_layer_thickness = u.start_layer_thickness
                /\ s_matrix.end_layer_thickness = u.end_layer_thickness
                /\ s_matrix.end_layer_solve_result = u.end_layer_solve_result
                /\ s_matrix.start_layer_solve_result = layer_solve_results[1]
                /\ [s_matrix.start_layer_solve_result
                       EXCEPT !.tangent_vector_field = None]
                     = u.start_layer_solve_result)

C25_Witness ==
    /\ Called("prepend_layer")
    /\ NumLayers = 3
    /\ layer_solve_results[1] = LayerA
    /\ layer_solve_results[2] = LayerB
    /\ layer_thicknesses[2] = 1
    /\ Finite(s_matrix)
    /\ Finite(Rebuilt)
    /\ s_matrix.s12 # Zeros
    /\ s_matrix.s21 # Zeros
    /\ s_matrix.start_layer_solve_result # Rebuilt.start_layer_solve_result

EditNames ==
    {"append_layer", "prepend_layer", "set_start_layer_thickness",
     "set_end_layer_thickness"}

\* C26: after an edit by append_layer, prepend_layer,
\* set_start_layer_thickness or set_end_layer_thickness of a matrix built by
\* stack_s_matrix, the start layer solve result (tangent_vector_field aside)
\* and start thickness of the result are those of the first layer, and the
\* end ones those of the last layer, of the caller's list edited the same
\* way; a matrix of a one-layer stack has equal start and end thickness.
C26_EditsTrackLayerList ==
    (pc = "edited" /\ op.name \in EditNames) =>
        /\ [s_matrix.start_layer_solve_result
               EXCEPT !.tangent_vector_field = None] = Layer(1)
        /\ s_matrix.start_layer_thickness = layer_thicknesses[1]
        /\ [s_matrix.end_layer_solve_result
               EXCEPT !.tangent_vector_field = None] = Layer(NumLayers)
        /\ s_matrix.end_layer_thickness = layer_thicknesses[NumLayers]
        /\ NumLayers = 1 =>
               s_matrix.start_layer_thickness = s_matrix.end_layer_thickness

\* C28: when redheffer_star_product is called with force_x64_solve = True,
\* every linear solve of the call is given force_x64_solve = True, those of
\* the append_layer it calls included.
C28_StarProductForcesEverySolve ==
    (Called("redheffer_star_product") /\ force_x64_solve = TRUE) =>
        \A i \in DOMAIN solves : solves[i] = TRUE

\* Every layer's thickness is an array with the layer's batch shape, of rank
\* one or more.
ThicknessPerBatchElement ==
    \A k \in 1 .. Len(batch_shapes) :
        /\ Len(batch_shapes[k]) >= 1
        /\ thickness_shapes[k] = batch_shapes[k]

\* C27: when each thickness is an array with the batch shape (of rank one or
\* more) of its layer, the phase exp(i * eigenvalue * thickness) of batch
\* element b and mode m is computed from thickness[b]: the thickness is
\* aligned with the batch axes, not with the mode axis.
C27_ThicknessFollowsBatch ==
    (shape_pc = "returned" /\ Len(batch_shapes) >= 2
        /\ ThicknessPerBatchElement) =>
        LET q == broadcast_shapes(batch_shapes) \o <<NumModes>>
            t == broadcast_shapes(thickness_shapes)
        IN  \A index \in Indices(Broadcast2(q, t)) :
                fd_thickness_index(q, t, index) = Leading(index, 1)

\* ------------------------------------------- claims: tangent vector field
NoTangent(s) ==
    /\ s.start_layer_solve_result.tangent_vector_field = None
    /\ s.end_layer_solve_result.tangent_vector_field = None

\* The layer solve results the caller passed are the instances it had, each
\* with the tangent_vector_field it was made with.
CallerKeeps ==
    \A k \in 1 .. NumLayers :
        /\ heap[k] = layer_solve_results[k]
        /\ heap[k] \in LayerPalette

\* C19: every ScatteringMatrix that stack_s_matrix and
\* stack_s_matrices_interior return has start and end layer solve results
\* whose tangent_vector_field is None, and the layer solve results the caller
\* passed keep their tangent_vector_field.
C19_ReturnedLayersHaveNoTangentField ==
    /\ (pc = "built" /\ Called("stack_s_matrix")) =>
        /\ NoTangent(ret.value)
        /\ CallerKeeps
    /\ (pc = "returned" /\ Called("stack_s_matrices_interior")) =>
        /\ \A i \in DOMAIN ret.value :
               NoTangent(ret.value[i][1]) /\ NoTangent(ret.value[i][2])
        /\ CallerKeeps

C19_Witness ==
    /\ pc = "returned"
    /\ Called("stack_s_matrices_interior")
    /\ layer_solve_results = <<LayerA, LayerB, LayerA>>
    /\ heap[1].tangent_vector_field = "tvf_a"
    /\ heap[3].tangent_vector_field = "tvf_a"
    /\ Len(ret.value) = 3
    /\ ret.value[2][1].start_layer_solve_result.tangent_vector_field = None
    /\ ret.value[2][2].end_layer_solve_result.tangent_vector_field = None
    /\ ret.value[2][2].end_layer_solve_result.eigenvalues = LayerA.eigenvalues

C19_WitnessStack ==
    /\ pc = "built"
    /\ Called("stack_s_matrix")
    /\ layer_solve_results = <<LayerA, LayerA>>
    /\ heap[2].tangent_vector_field = "tvf_a"
    /\ ret.value.end_layer_solve_result.tangent_vector_field = None

\* ------------------------------------------------- claims: Brillouin zone
\* brillouin_grid_shape is a length-2 tuple of positive integers.
ValidGridShape ==
    /\ Len(bz_grid_shape) = 2
    /\ bz_grid_shape[1] >= 1
    /\ bz_grid_shape[2] >= 1

\* C20: brillouin_zone_in_plane_wavevector raises a ValueError whenever
\* brillouin_grid_shape does not have length 2 or one of its two entries is
\* less than 1, and for every other shape it returns an array of shape
\* brillouin_grid_shape + (2,).
C20_InvalidGridShapeRaisesValueError ==
    bz_pc # "start" =>
        IF ValidGridShape
        THEN bz_ret = [raised |-> None, value |-> bz_grid_shape \o <<2>>]
        ELSE bz_ret = RaiseError("ValueError")

\* ------------------------------------------------------------ claims: eig
Batch == DOMAIN eig_matrix
Modes(b) == DOMAIN eig_cotangents.f_broadened[b]

\* The residuals with batch element a replaced by the eigenvalues of m.
ResidualsWith(a, m) ==
    <<[eig_residuals[1] EXCEPT ![a] = m], eig_residuals[2], eig_residuals[3]>>

\* The residuals of batch element b alone.
ResidualsOf(b) ==
    << <<eig_residuals[1][b]>>, <<eig_residuals[2][b]>>, eig_residuals[3]>>

\* C15: in the backward rule, eps of a batch element is the larger of
\* eps_relative * max |eigenvalue_i - eigenvalue_j|^2 over that element's
\* own eigenvalues and the floor 1e-24, and eps and the broadened factors of
\* an element stay the same whatever the eigenvalues of the other elements.
C15_EpsPerBatchElement ==
    eig_pc = "backward" =>
        \A b \in Batch :
            LET own == {MonoTimes(eig_residuals[3], AbsSq(z)) :
                            z \in {DeltaEig(eig_residuals[1][b])[r][c] :
                                       r \in Modes(b), c \in Modes(b)}}
                eps == eig_cotangents.eps[b]
            IN  /\ eps \in own \cup {_EIG_EPS_MINIMUM}
                /\ \A x \in own \cup {_EIG_EPS_MINIMUM} : ~MonoLess(eps, x)
                /\ Bind(_eig_bwd(ResidualsOf(b)), LAMBDA alone :
                        /\ eps = alone.eps[1]
                        /\ eig_cotangents.f_broadened[b] = alone.f_broadened[1])
                /\ \A m \in Matrices :
                    Bind(_eig_bwd(ResidualsWith(b, m)), LAMBDA other :
                        \A a \in Batch \ {b} :
                            /\ other.eps[a] = eig_cotangents.eps[a]
                            /\ other.f_broadened[a]
                                 = eig_cotangents.f_broadened[a])

C15_Witness ==
    /\ eig_pc = "backward"
    /\ Len(eig_matrix) = 2
    /\ eig_matrix[1].scale = 0
    /\ eig_matrix[2].scale = 0
    /\ eig_matrix[1].values = << <<3, 0>>, <<-2, 0>>, <<-2, 0>> >>
    /\ eig_matrix[2].values = << <<0, 0>>, <<0, 1>>, <<2, 1>> >>
    /\ eig_eps_relative = _EIG_EPS_RELATIVE
    /\ eig_cotangents.eps[1] = Mono(25, -2)
    /\ eig_cotangents.eps[2] = Mono(5, -2)

C16_WitnessDegenerate ==
    /\ eig_pc = "backward"
    /\ Len(eig_matrix) = 2
    /\ eig_matrix[2].values = << <<1, 0>>, <<1, 0>>, <<1, 0>> >>
    /\ eig_cotangents.eps[2] = _EIG_EPS_MINIMUM
    /\ eig_cotangents.f_broadened[2][1][3].den = Mag(_EIG_EPS_MINIMUM)

\* The eigenvalues of one matrix multiplied by c = factor * 10^(6 shift).
Scaled(eigenvalues_b, factor, shift) ==
    [scale |-> eigenvalues_b.scale + shift,
     values |-> [c \in DOMAIN eigenvalues_b.values |->
                    <<factor * eigenvalues_b.values[c][1],
                      factor * eigenvalues_b.values[c][2]>>]]

ScaleFactors == {1, 3}
ScaleShifts == {-1, 0, 1}

\* eps and the factors of batch element b, and those of its eigenvalues
\* multiplied by c = factor * 10^(6 shift): eps is multiplied by c^2 and
\* every factor by 1 / c (compared by cross-multiplication).
ScalesWith(b, factor, shift) ==
    Bind(_eig_bwd(<< <<Scaled(eig_residuals[1][b], factor, shift)>>,
                     <<eig_residuals[2][b]>>, eig_residuals[3]>>),
         LAMBDA scaled :
        /\ scaled.eps[1]
             = Mono(factor * factor * eig_cotangents.eps[b].c,
                    eig_cotangents.eps[b].k + 2 * shift)
        /\ \A r \in Modes(b), c \in Modes(b) :
            Bind2(eig_cotangents.f_broadened[b][r][c],
                  scaled.f_broadened[1][r][c], LAMBDA f, g :
                /\ MagShift(MagTimes(factor * g.num.re, f.den),
                            g.num.scale + shift)
                     = MagShift(MagTimes(f.num.re, g.den), f.num.scale)
                /\ MagShift(MagTimes(factor * g.num.im, f.den),
                            g.num.scale + shift)
                     = MagShift(MagTimes(f.num.im, g.den), f.num.scale)))

\* C17 (as claimed): for every scale c and every set of eigenvalues,
\* multiplying the eigenvalues by c multiplies eps by c^2 and every broadened
\* factor by 1 / c.
C17_ScaleAwareAlways ==
    eig_pc = "backward" =>
        \A b \in Batch, factor \in ScaleFactors, shift \in ScaleShifts :
            ScalesWith(b, factor, shift)

\* eps_relative * max |delta|^2 of the eigenvalues is at least the floor.
AboveFloor(eigenvalues_b) ==
    ~MonoLess(MonoTimes(eig_residuals[3],
                        EigRangeSq(<<DeltaEig(eigenvalues_b)>>, 1)),
              _EIG_EPS_MINIMUM)

\* C17 (amended): multiplying the eigenvalues by c > 0 multiplies eps by c^2
\* and every broadened factor by 1 / c whenever eps_relative * max |delta|^2
\* is at least the floor 1e-24 before and after the scaling.
C17_ScaleAwareAboveFloor ==
    eig_pc = "backward" =>
        \A b \in Batch, factor \in ScaleFactors, shift \in ScaleShifts :
            (/\ AboveFloor(eig_residuals[1][b])
             /\ AboveFloor(Scaled(eig_residuals[1][b], factor, shift))) =>
                ScalesWith(b, factor, shift)

C17_Witness ==
    /\ eig_pc = "backward"
    /\ Len(eig_matrix) = 1
    /\ eig_matrix[1].scale = 0
    /\ eig_matrix[1].values = << <<3, 0>>, <<-2, 0>>, <<-2, 0>> >>
    /\ eig_eps_relative = _EIG_EPS_RELATIVE
    /\ AboveFloor(eig_residuals[1][1])
    /\ AboveFloor(Scaled(eig_residuals[1][1], 3, 1))
    /\ ScalesWith(1, 3, 1)
    /\ eig_cotangents.eps[1] = Mono(25, -2)

\* C18: the backward rule reads the eigenvalues and eigenvectors the forward
\* pass returned to the caller, in the same order (the forward pass keeps
\* its own outputs, with eps_relative, as residuals); what eig returns is
\* the same for every eps_relative; the gradient for eps_relative is None.
C18_BackwardUsesForwardOutputs ==
    /\ eig_pc \in {"forward", "backward"} =>
        /\ eig_residuals = <<eig_primals[1], eig_primals[2], eig_eps_relative>>
    /\ eig_pc = "backward" =>
        /\ eig_cotangents.eigenvalues = eig_primals[1]
        /\ eig_cotangents.eigenvectors = eig_primals[2]
        /\ eig_cotangents.grad_eps_relative = None
    /\ eig_pc \in {"called", "forward", "backward"} =>
        /\ \A b \in Batch : \A c \in DOMAIN eig_primals[2][b] :
               eig_primals[1][b].values[c]
                 = eig_matrix[b].values[eig_primals[2][b][c]]
        /\ \A e \in EpsRelatives :
               /\ eig(eig_matrix, e, eig_primals[2]) = eig_primals
               /\ _eig_fwd(eig_matrix, e, eig_primals[2])[1] = eig_primals

C18_Witness ==
    /\ eig_pc = "backward"
    /\ Len(eig_matrix) = 2
    /\ eig_primals[2] = << <<3, 2, 1>>, <<1, 2, 3>> >>
    /\ eig_matrix[1].values = << <<3, 0>>, <<-2, 0>>, <<-2, 0>> >>
    /\ eig_primals[1][1].values = << <<-2, 0>>, <<-2, 0>>, <<3, 0>> >>
    /\ eig_cotangents.eigenvalues[1].values[3] = <<3, 0>>
    /\ eig_eps_relative # _EIG_EPS_RELATIVE

\* ---------------------------------------------- claims: generate_expansion
Coefficients == basis_ret.value.basis_coefficients
Reciprocal == _reciprocal(basis_lattice)

\* The first n rows of coeffs.
FirstRows(coeffs, n) == [i \in 1 .. n |-> coeffs[i]]

\* C21: for any lattice, either truncation and approximate_num_terms
\* n1 <= n2, the basis coefficients generated for n1 are the first rows, in
\* the same order, of the basis coefficients generated for n2.
C21_OrderingIndependentOfNumTerms ==
    basis_pc = "returned" =>
        \A n2 \in basis_num_terms .. MaxTerms :
            Bind(generate_expansion(basis_lattice, n2, basis_truncation)
                     .value.basis_coefficients, LAMBDA larger :
                /\ Len(Coefficients) <= Len(larger)
                /\ Coefficients = FirstRows(larger, Len(Coefficients)))

\* C22: for every lattice with non-zero cross product, either truncation and
\* approximate_num_terms >= 1, the first row of the basis coefficients is
\* (0, 0) and the rows are in non-decreasing order of the magnitude of the
\* lattice vector they generate.
C22_ZerothOrderFirstAndSorted ==
    (basis_pc = "returned"
     /\ _cross_product(basis_lattice.u, basis_lattice.v) # 0) =>
        /\ Len(Coefficients) >= 1
        /\ Coefficients[1] = <<0, 0>>
        /\ \A i \in 1 .. (Len(Coefficients) - 1) :
               MagnitudeSq(Reciprocal, Coefficients[i])
                 <= MagnitudeSq(Reciprocal, Coefficients[i + 1])

C22_Witness ==
    /\ basis_pc = "returned"
    /\ basis_truncation = "circular"
    /\ basis_lattice = LatticeVectors(<<2, 0>>, <<0, 1>>, 1)
    /\ Len(Coefficients) = 7
    /\ Coefficients[1] = <<0, 0>>
    /\ MagnitudeSq(Reciprocal, Coefficients[3])
         < MagnitudeSq(Reciprocal, Coefficients[4])
    /\ Coefficients[7] = <<2, 0>>

\* The integer pairs among which the lattice vectors of the circle are
\* looked for.
Box == (-(MaxTerms + 2)) .. (MaxTerms + 2)

\* C23: for the circular truncation, the returned coefficients are exactly
\* the integer pairs (g1, g2) whose lattice vector g1 * u + g2 * v has a
\* magnitude below sqrt(approximate_num_terms * |u x v| / pi).
C23_CircularIsExactlyTheCircle ==
    (basis_pc = "returned" /\ basis_truncation = "circular") =>
        {Coefficients[i] : i \in DOMAIN Coefficients}
          = {g12 \in Box \X Box :
                WithinCircle(Reciprocal, basis_num_terms, g12)}

\* C24: whenever (g1, g2) is a row of the basis coefficients, (-g1, -g2) is
\* a row too, for every lattice, either truncation and every
\* approximate_num_terms.
C24_ExpansionIsSymmetric ==
    basis_pc = "returned" =>
        \A i \in DOMAIN Coefficients :
            \E j \in DOMAIN Coefficients :
                Coefficients[j] = <<-Coefficients[i][1], -Coefficients[i][2]>>

\* ------------------------------------ claims: fourier_convolution_matrix
\* C29: for every array shape that validate_shape_for_expansion accepts,
\* entry (i, j) of the matrix fourier_convolution_matrix returns is read from
\* the bin of the transform whose frequency is
\* basis_coefficients[i] - basis_coefficients[j], on both axes.
C29_EntriesReadTheirOwnBin ==
    (fft_pc = "returned") =>
        LET c == fft_expansion.basis_coefficients
        IN  \A i, j \in 1 .. Len(c) :
                \A k \in 1 .. 2 :
                    fftfreq(fft_shape[k], fft_ret.value[i][j][k])
                        = c[i][k] - c[j][k]

\* --------------------------------------------- claims: Expansion equality
\* C30: for any two Expansion values a and b, a == b implies
\* hash(a) == hash(b), also when the coefficient arrays hold the same
\* integers with the same shape in different integer dtypes.
C30_EqualExpansionsHashEqual ==
    (expansion_pc = "compared" /\ expansion_ret.eq) =>
        expansion_ret.hash_a = expansion_ret.hash_b
====
